---- MODULE Spec2Model ----
(***************************************************************************)
(* Model of the LLM pipeline operations of app.py: the five request        *)
(* handlers with their inlined retry loop and failure classification, the  *)
(* fence extraction, the job-identifier split and the rendercv hand-off.   *)
(* Python strings are sequences of one-character strings.                  *)
(***************************************************************************)
EXTENDS Integers, Sequences, FiniteSets, TLC

\* ------------------------------------------------------------------------
\* Bounds of the model
\* ------------------------------------------------------------------------
\* most pieces a cleaned_output enumerated for the identifier split is made of
MaxDocPieces == 5

\* pieces the enumerated documents are built from: every character of the
\* alphabet, and the separator as one piece so that headers with several
\* separators are within the bound
Pieces == {<<"a">>, <<"@">>, <<" ">>, <<"#">>, <<"\n">>, <<" ", "@", " ">>}

\* most pieces an LLM response enumerated for the fence extraction is made of
MaxOutputPieces == 4

\* lines after the first in an enumerated scaffold file
MaxScaffoldLines == 3

\* ------------------------------------------------------------------------
\* Python str operations
\* ------------------------------------------------------------------------
\* the grave accent U+0060 of the code fences, which cannot be written inside
\* a string of this module
Backtick == "BACKTICK"

\* characters str.strip() removes
IsSpace(c) == c \in {" ", "\n", "\t", "\r"}

RECURSIVE LStrip(_)
LStrip(s) == IF s # <<>> /\ IsSpace(Head(s)) THEN LStrip(Tail(s)) ELSE s

RECURSIVE RStrip(_)
RStrip(s) ==
    IF s # <<>> /\ IsSpace(s[Len(s)]) THEN RStrip(SubSeq(s, 1, Len(s) - 1)) ELSE s

\* str.strip()
Strip(s) == RStrip(LStrip(s))

\* str.startswith(p)
StartsWith(s, p) == Len(p) <= Len(s) /\ SubSeq(s, 1, Len(p)) = p

\* str.endswith(p)
EndsWith(s, p) == Len(p) <= Len(s) /\ SubSeq(s, Len(s) - Len(p) + 1, Len(s)) = p

\* str.removeprefix(p)
RemovePrefix(s, p) == IF StartsWith(s, p) THEN SubSeq(s, Len(p) + 1, Len(s)) ELSE s

\* str.removesuffix(p)
RemoveSuffix(s, p) ==
    IF p # <<>> /\ EndsWith(s, p) THEN SubSeq(s, 1, Len(s) - Len(p)) ELSE s

\* sub occurs in s at index i
OccursAt(s, sub, i) ==
    /\ i >= 1
    /\ i + Len(sub) - 1 <= Len(s)
    /\ SubSeq(s, i, i + Len(sub) - 1) = sub

\* sub in s
Contains(s, sub) == \E i \in 1..(Len(s) + 1) : OccursAt(s, sub, i)

\* str.find(sub), 1-based; 0 when absent
Find(s, sub) ==
    IF Contains(s, sub)
    THEN CHOOSE i \in 1..(Len(s) + 1) :
            OccursAt(s, sub, i) /\ \A j \in 1..(i - 1) : ~OccursAt(s, sub, j)
    ELSE 0

\* str.rfind(sub), 1-based; 0 when absent
RFind(s, sub) ==
    IF Contains(s, sub)
    THEN CHOOSE i \in 1..(Len(s) + 1) :
            OccursAt(s, sub, i) /\ \A j \in (i + 1)..(Len(s) + 1) : ~OccursAt(s, sub, j)
    ELSE 0

\* str.split(sep, 1): one or two pieces
SplitOnce(s, sep) ==
    LET i == Find(s, sep)
    IN  IF i = 0 THEN <<s>>
        ELSE <<SubSeq(s, 1, i - 1), SubSeq(s, i + Len(sep), Len(s))>>

\* str.rsplit(sep, 1): one or two pieces
RSplitOnce(s, sep) ==
    LET i == RFind(s, sep)
    IN  IF i = 0 THEN <<s>>
        ELSE <<SubSeq(s, 1, i - 1), SubSeq(s, i + Len(sep), Len(s))>>

\* str.split(sep): the separators are found left to right, without overlap
RECURSIVE Split(_, _)
Split(s, sep) ==
    LET i == Find(s, sep)
    IN  IF i = 0 THEN <<s>>
        ELSE <<SubSeq(s, 1, i - 1)>> \o Split(SubSeq(s, i + Len(sep), Len(s)), sep)

\* list[-1]
Last(list) == list[Len(list)]

\* str.lower() on the letters the messages use
UpperCase == <<"A","B","C","D","E","F","G","H","I","J","K","L","M",
               "N","O","P","Q","R","S","T","U","V","W","X","Y","Z">>
LowerCase == <<"a","b","c","d","e","f","g","h","i","j","k","l","m",
               "n","o","p","q","r","s","t","u","v","w","x","y","z">>
LowerChar(c) ==
    IF \E i \in 1..26 : UpperCase[i] = c
    THEN LowerCase[CHOOSE i \in 1..26 : UpperCase[i] = c]
    ELSE c
Lower(s) == [i \in 1..Len(s) |-> LowerChar(s[i])]

\* ------------------------------------------------------------------------
\* Values a handler works with
\* ------------------------------------------------------------------------
\* Python None
None == [kind |-> "None"]

\* flask.jsonify(obj): a Response carrying the JSON object
Jsonify(obj) == [kind |-> "Response", json |-> obj]

\* the Python tuple (first, second)
Tuple(first, second) == [kind |-> "tuple", first |-> first, second |-> second]

\* a plain str returned by a handler
Str(text) == [kind |-> "str", text |-> text]

\* raise ValueError(msg) and the other exceptions that are not HTTPError
Exception(type, msg) == [kind |-> "Exception", type |-> type, msg |-> msg]

\* outcome of a try body: the handler returns value from the step named, or
\* exc is raised in the step named
ReturnAt(step, value) == [kind |-> "return", step |-> step, value |-> value]
Return(value) == ReturnAt("success", value)
Raise(step, exc) == [kind |-> "raise", step |-> step, exc |-> exc]

\* ------------------------------------------------------------------------
\* Retry loop: the except clauses shared by the five handlers
\* ------------------------------------------------------------------------
\* a loop that stops one attempt early
MaxAttemptsShort == 3 - 1

\* a loop that allows one attempt more
MaxAttemptsLong == 3 + 1

\* max_attempts = 3
MaxAttempts == 3

RateLimitMsg == <<"R","a","t","e"," ","l","i","m","i","t"," ","e","x","c","e","e","d",
      "e","d","."," ","P","l","e","a","s","e"," ","t","r","y"," ","a",
      "g","a","i","n"," ","l","a","t","e","r",".">>
UnavailableMsg ==
    <<"S","e","r","v","i","c","e"," ","t","e","m","p","o","r","a","r","i",
      "l","y"," ","u","n","a","v","a","i","l","a","b","l","e","."," ",
      "P","l","e","a","s","e"," ","t","r","y"," ","a","g","a","i","n",
      " ","l","a","t","e","r",".">>
HttpErrorPrefix == <<"H","T","T","P"," ","e","r","r","o","r",":"," ">>
UnknownErrorMsg == <<"U","n","k","n","o","w","n"," ","e","r","r","o","r"," ","o","c","c",
      "u","r","r","e","d">>

RateLimitReturn == Tuple(Jsonify([error |-> RateLimitMsg]), 429)
UnavailableReturn == Tuple(Jsonify([error |-> UnavailableMsg]), 503)

\* ['rate limit', 'quota', 'too many requests', '429']
RateLimitPhrases ==
    { <<"r","a","t","e"," ","l","i","m","i","t">>, <<"q","u","o","t","a">>,
      <<"t","o","o"," ","m","a","n","y"," ","r","e","q","u","e","s","t","s">>, <<"4","2","9">> }

\* any(phrase in error_str for phrase in [...])
HasRateLimitPhrase(error_str) == \E phrase \in RateLimitPhrases : Contains(error_str, phrase)

\* an HTTPError clause that retries a 503 like any other status
ExceptHTTPErrorRetry503(e) ==
    IF ~e.has_response
    THEN [kind |-> "escape", type |-> "AttributeError"]
    ELSE IF e.status_code = 429 THEN [kind |-> "return", value |-> RateLimitReturn]
    ELSE [kind |-> "record",
          last_error |-> Tuple(Jsonify([error |-> HttpErrorPrefix \o e.msg]), 500)]

\* except requests.exceptions.HTTPError as e: e.response is None for an
\* HTTPError built without a response, and the attribute access then raises
\* out of the handler
ExceptHTTPError(e) ==
    IF ~e.has_response
    THEN [kind |-> "escape", type |-> "AttributeError"]
    ELSE IF e.status_code = 429 THEN [kind |-> "return", value |-> RateLimitReturn]
    ELSE IF e.status_code = 503 THEN [kind |-> "return", value |-> UnavailableReturn]
    ELSE [kind |-> "record",
          last_error |-> Tuple(Jsonify([error |-> HttpErrorPrefix \o e.msg]), 500)]

\* an Exception clause that returns every failure at once
ExceptExceptionFatal(e) ==
    IF HasRateLimitPhrase(Lower(e.msg))
    THEN [kind |-> "return", value |-> RateLimitReturn]
    ELSE [kind |-> "return", value |-> Tuple(Jsonify([error |-> e.msg]), 500)]

\* except Exception as e
ExceptException(e) ==
    IF HasRateLimitPhrase(Lower(e.msg))
    THEN [kind |-> "return", value |-> RateLimitReturn]
    ELSE [kind |-> "record", last_error |-> Tuple(Jsonify([error |-> e.msg]), 500)]

\* except clauses that look at the message before the status code
ExceptPhraseFirst(e) ==
    IF HasRateLimitPhrase(Lower(e.msg))
    THEN [kind |-> "return", value |-> RateLimitReturn]
    ELSE IF e.kind = "HTTPError" THEN ExceptHTTPError(e) ELSE ExceptException(e)

\* the except clauses in their order: HTTPError first, then Exception
Except(e) == IF e.kind = "HTTPError" THEN ExceptHTTPError(e) ELSE ExceptException(e)

\* return last_error if last_error else jsonify({...}), 500
\* Python reads it as the tuple ((last_error if ... else jsonify(...)), 500)
FinalReturn(last_error) ==
    Tuple(IF last_error.kind # "None" THEN last_error
          ELSE Jsonify([error |-> UnknownErrorMsg]),
          500)

\* ------------------------------------------------------------------------
\* jwt_required and get_llm
\* ------------------------------------------------------------------------
TokenMissingMsg == <<"4","0","1"," ","U","n","a","u","t","h","o","r","i","z","e","d",":",
      " ","A","u","t","h","o","r","i","z","a","t","i","o","n"," ","t",
      "o","k","e","n"," ","i","s"," ","m","i","s","s","i","n","g"," ",
      "o","r"," ","i","n","v","a","l","i","d",".">>
TokenExpiredMsg == <<"4","0","1"," ","U","n","a","u","t","h","o","r","i","z","e","d",":",
      " ","T","o","k","e","n"," ","h","a","s"," ","e","x","p","i","r",
      "e","d",".">>
TokenInvalidMsg == <<"4","0","1"," ","U","n","a","u","t","h","o","r","i","z","e","d",":",
      " ","I","n","v","a","l","i","d"," ","t","o","k","e","n",".">>

\* the Authorization header of a request
AuthHeaders == {"absent", "not_bearer", "bearer_expired", "bearer_invalid", "bearer_valid"}

\* a token check that does not look at the expiry
GetJwtUserIdNoExpiry(auth_header) ==
    IF auth_header \in {"absent", "not_bearer"}
    THEN [kind |-> "Unauthorized", msg |-> TokenMissingMsg]
    ELSE IF auth_header = "bearer_invalid"
    THEN [kind |-> "Unauthorized", msg |-> TokenInvalidMsg]
    ELSE [kind |-> "sub"]

\* get_jwt_user_id(): the subject, or the Unauthorized it raises (str(e))
GetJwtUserId(auth_header) ==
    IF auth_header \in {"absent", "not_bearer"}
    THEN [kind |-> "Unauthorized", msg |-> TokenMissingMsg]
    ELSE IF auth_header = "bearer_expired"
    THEN [kind |-> "Unauthorized", msg |-> TokenExpiredMsg]
    ELSE IF auth_header = "bearer_invalid"
    THEN [kind |-> "Unauthorized", msg |-> TokenInvalidMsg]
    ELSE [kind |-> "sub"]

NoApiKeyMsg == <<"N","o"," ","G","e","m","i","n","i"," ","A","P","I"," ","k","e","y",
      " ","p","r","o","v","i","d","e","d","."," ","P","l","e","a","s",
      "e"," ","p","r","o","v","i","d","e"," ","o","n","e",".">>

\* get_llm(): raises ValueError when neither the caller nor the environment
\* provides a key
GetLlm(api_key) ==
    IF ~api_key THEN Raise("get_llm", Exception("ValueError", NoApiKeyMsg))
    ELSE Return(None)

\* ------------------------------------------------------------------------
\* Job analysis: identifier split (analyze_job_posting_endpoint)
\* ------------------------------------------------------------------------
NewLine == <<"\n">>
HeadingMarker == <<"#">>
AtSign == <<"@">>
Separator == <<" ", "@", " ">>

\* 'Job analysis does not start with [job title] @ [company name].'
MissingJobIdMsg ==
    <<"J","o","b"," ","a","n","a","l","y","s","i","s"," ","d","o","e","s"," ",
      "n","o","t"," ","s","t","a","r","t"," ","w","i","t","h"," ","[","j","o","b",
      " ","t","i","t","l","e","]"," ","@"," ","[","c","o","m","p","a","n","y"," ",
      "n","a","m","e","]",".">>

\* a split at the last newline instead of the first
SplitLinesAtLast(cleaned_output) == RSplitOnce(cleaned_output, NewLine)

\* lines = cleaned_output.split('\n', 1)
SplitLines(cleaned_output) == SplitOnce(cleaned_output, NewLine)

\* job_id = lines[0].strip(), with one leading '#' removed and re-stripped
JobId(lines) ==
    LET job_id == Strip(lines[1])
    IN  IF StartsWith(job_id, HeadingMarker) THEN Strip(Tail(job_id)) ELSE job_id

\* a handler that accepts every job_id
HasJobIdentifierAlways(job_id) == TRUE

\* the test the handler makes before it accepts job_id
HasJobIdentifier(job_id) == Contains(job_id, AtSign)

\* the last piece without the strip
CompanyNameUnstripped(job_id) == Last(Split(job_id, Separator))

\* company_name = job_id.split(' @ ')[-1].strip()
CompanyName(job_id) == Strip(Last(Split(job_id, Separator)))

\* job_analysis = (lines[1] or '').strip() if len(lines) > 1 else ''
JobAnalysis(lines) == IF Len(lines) > 1 THEN Strip(lines[2]) ELSE <<>>

\* the identifier split of one cleaned_output: a ValueError or the three fields
SplitIdentifier(cleaned_output) ==
    LET lines == SplitLines(cleaned_output)
        job_id == JobId(lines)
    IN  IF ~HasJobIdentifier(job_id)
        THEN [kind |-> "ValueError", msg |-> MissingJobIdMsg]
        ELSE [kind |-> "ok",
              job_id |-> job_id,
              company_name |-> CompanyName(job_id),
              job_analysis |-> JobAnalysis(lines)]


\* ------------------------------------------------------------------------
\* Fence extraction and the try bodies of the four handlers without renderer
\* ------------------------------------------------------------------------
Fence == <<Backtick,Backtick,Backtick>>
JsonFence == <<Backtick,Backtick,Backtick,"j","s","o","n">>
HtmlFence == <<Backtick,Backtick,Backtick,"h","t","m","l">>

EmptyOutputMsg == <<"L","L","M"," ","o","u","t","p","u","t"," ","i","s"," ","e","m","p",
      "t","y",".">>
NoJsonFenceMsg == <<"R","e","s","p","o","n","s","e"," ","d","o","e","s"," ","n","o","t",
      " ","s","t","a","r","t"," ","w","i","t","h"," ",Backtick,Backtick,
      Backtick,"j","s","o","n",Backtick,Backtick,Backtick,".">>
NoHtmlFenceMsg == <<"R","e","s","p","o","n","s","e"," ","d","o","e","s"," ","n","o","t",
      " ","s","t","a","r","t"," ","w","i","t","h"," ",Backtick,Backtick,
      Backtick,"h","t","m","l",Backtick,Backtick,Backtick,".">>
NoFenceMsg == <<"R","e","s","p","o","n","s","e"," ","d","o","e","s"," ","n","o","t",
      " ","s","t","a","r","t"," ","w","i","t","h"," ",Backtick,Backtick,
      Backtick,"j","s","o","n",Backtick,Backtick,Backtick," ","o","r",
      " ",Backtick,Backtick,Backtick,Backtick,Backtick,Backtick,".">>
ResponseLabel == <<" ","R","e","s","p","o","n","s","e",":"," ">>

\* the message with the raw output appended when private_data_logging is set
WithResponse(message, llm_output, private_data_logging) ==
    IF private_data_logging THEN message \o ResponseLabel \o llm_output ELSE message

\* llm_output.removeprefix(JsonFence).removesuffix(Fence).strip()
ExtractJson(llm_output) == Strip(RemoveSuffix(RemovePrefix(llm_output, JsonFence), Fence))

\* get_resume_json_endpoint, lines 145-155; r is what llm.chat() produced
GetResumeJsonTry(r, private_data_logging) ==
    IF r.kind # "text" THEN Raise("llm", r)
    ELSE LET llm_output == Strip(r.content)
         IN  IF ~StartsWith(llm_output, JsonFence)
             THEN Raise("fence", Exception("ValueError",
                        WithResponse(NoJsonFenceMsg, llm_output, private_data_logging)))
             ELSE Return(Str(ExtractJson(llm_output)))

\* generate_search_query_endpoint, lines 208-210
GenerateSearchQueryTry(r) ==
    IF r.kind # "text" THEN Raise("llm", r)
    ELSE Return(Jsonify([search_query |-> Strip(r.content)]))

\* generate_cover_letter_endpoint, lines 370-372
GenerateCoverLetterTry(r) ==
    IF r.kind # "text" THEN Raise("llm", r)
    ELSE Return(Jsonify([content |-> Strip(r.content)]))

\* an extraction that takes a bare fence for the HTML fence
ExtractHtmlAnyFence(llm_output) ==
    IF StartsWith(llm_output, HtmlFence)
    THEN Strip(RemoveSuffix(RemovePrefix(llm_output, HtmlFence), Fence))
    ELSE IF StartsWith(llm_output, Fence)
    THEN Strip(RemoveSuffix(RemovePrefix(llm_output, Fence), Fence))
    ELSE Strip(llm_output)

\* analyze_job_posting_endpoint, lines 281-288: the fenced interior, or the
\* whole output when the fence is missing
ExtractHtml(llm_output) ==
    IF StartsWith(llm_output, HtmlFence)
    THEN Strip(RemoveSuffix(RemovePrefix(llm_output, HtmlFence), Fence))
    ELSE Strip(llm_output)

\* analyze_job_posting_endpoint, lines 278-288: the empty check and the
\* extraction, from the stripped output to cleaned_output
AnalyzeJobPostingExtract(llm_output) ==
    IF llm_output = <<>>
    THEN Raise("empty", Exception("ValueError", EmptyOutputMsg))
    ELSE ReturnAt("extract", ExtractHtml(llm_output))

\* warnings.warn(...) of analyze_job_posting_endpoint for one LLM output
AnalyzeJobPostingWarnings(r, private_data_logging) ==
    IF r.kind # "text" THEN <<>>
    ELSE LET llm_output == Strip(r.content)
         IN  IF llm_output # <<>> /\ ~StartsWith(llm_output, HtmlFence)
             THEN <<WithResponse(NoHtmlFenceMsg, llm_output, private_data_logging)>>
             ELSE <<>>

\* analyze_job_posting_endpoint, lines 275-306
AnalyzeJobPostingTry(r) ==
    IF r.kind # "text" THEN Raise("llm", r)
    ELSE LET cleaned_output == AnalyzeJobPostingExtract(Strip(r.content))
         IN  IF cleaned_output.kind = "raise" THEN cleaned_output
             ELSE LET id == SplitIdentifier(cleaned_output.value)
                  IN  IF id.kind = "ValueError"
                      THEN Raise("split", Exception("ValueError", id.msg))
                      ELSE Return(Jsonify([job_id |-> id.job_id,
                                           company_name |-> id.company_name,
                                           job_analysis |-> id.job_analysis]))

FormatFileMissingMsg ==
    <<"[","E","r","r","n","o"," ","2","]"," ","N","o"," ","s","u","c","h",
      " ","f","i","l","e"," ","o","r"," ","d","i","r","e","c","t","o",
      "r","y",":"," ","'","j","o","b","_","a","n","a","l","y","s","i",
      "s","_","f","o","r","m","a","t",".","h","t","m","l","'">>

\* with open("job_analysis_format.html", "r") as f, lines 254-255
OpenFormatFile(format_file) ==
    IF ~format_file
    THEN Raise("open", Exception("FileNotFoundError", FormatFileMissingMsg))
    ELSE Return(None)

\* ------------------------------------------------------------------------
\* json.loads, on the JSON the modelled outputs use: objects, arrays, strings
\* without escapes and unsigned integers; complaints carry no position
\* ------------------------------------------------------------------------
Quote == "\""
Digit(c) == c \in {"0", "1", "2", "3", "4", "5", "6", "7", "8", "9"}

ExpectingValue == <<"E","x","p","e","c","t","i","n","g"," ","v","a","l","u","e">>
ExpectingName == <<"E","x","p","e","c","t","i","n","g"," ","p","r","o","p","e","r","t",
      "y"," ","n","a","m","e"," ","e","n","c","l","o","s","e","d"," ",
      "i","n"," ","d","o","u","b","l","e"," ","q","u","o","t","e","s">>
ExpectingColon == <<"E","x","p","e","c","t","i","n","g"," ","'",":","'"," ","d","e","l",
      "i","m","i","t","e","r">>
ExpectingComma == <<"E","x","p","e","c","t","i","n","g"," ","'",",","'"," ","d","e","l",
      "i","m","i","t","e","r">>
UnterminatedString == <<"U","n","t","e","r","m","i","n","a","t","e","d"," ","s","t","r","i",
      "n","g"," ","s","t","a","r","t","i","n","g"," ","a","t">>
ExtraData == <<"E","x","t","r","a"," ","d","a","t","a">>

JsonFail(complaint) == [ok |-> FALSE, complaint |-> complaint]
JsonOk(val, next) == [ok |-> TRUE, val |-> val, next |-> next]

RECURSIVE SkipSpace(_, _)
SkipSpace(s, i) == IF i <= Len(s) /\ IsSpace(s[i]) THEN SkipSpace(s, i + 1) ELSE i

RECURSIVE DigitsEnd(_, _)
DigitsEnd(s, i) == IF i <= Len(s) /\ Digit(s[i]) THEN DigitsEnd(s, i + 1) ELSE i

\* the string whose opening quote is s[i]
ScanString(s, i) ==
    IF \E j \in (i + 1)..Len(s) : s[j] = Quote
    THEN LET j == CHOOSE j \in (i + 1)..Len(s) :
                      s[j] = Quote /\ \A k \in (i + 1)..(j - 1) : s[k] # Quote
         IN  JsonOk([t |-> "str", s |-> SubSeq(s, i + 1, j - 1)], j + 1)
    ELSE JsonFail(UnterminatedString)

RECURSIVE ScanValue(_, _)
RECURSIVE ScanMembers(_, _, _)
RECURSIVE ScanElements(_, _, _)

\* one value starting at or after s[i0]
ScanValue(s, i0) ==
    LET i == SkipSpace(s, i0)
    IN  IF i > Len(s) THEN JsonFail(ExpectingValue)
        ELSE IF s[i] = Quote THEN ScanString(s, i)
        ELSE IF Digit(s[i])
        THEN JsonOk([t |-> "num", s |-> SubSeq(s, i, DigitsEnd(s, i) - 1)], DigitsEnd(s, i))
        ELSE IF s[i] = "{"
        THEN LET j == SkipSpace(s, i + 1)
             IN  IF j <= Len(s) /\ s[j] = "}"
                 THEN JsonOk([t |-> "obj", members |-> <<>>], j + 1)
                 ELSE ScanMembers(s, j, <<>>)
        ELSE IF s[i] = "["
        THEN LET j == SkipSpace(s, i + 1)
             IN  IF j <= Len(s) /\ s[j] = "]"
                 THEN JsonOk([t |-> "arr", items |-> <<>>], j + 1)
                 ELSE ScanElements(s, j, <<>>)
        ELSE JsonFail(ExpectingValue)

\* the members of an object from s[i] on, after those already read
ScanMembers(s, i, members) ==
    IF i > Len(s) \/ s[i] # Quote THEN JsonFail(ExpectingName)
    ELSE LET key == ScanString(s, i)
         IN  IF ~key.ok THEN key
             ELSE LET c == SkipSpace(s, key.next)
                  IN  IF c > Len(s) \/ s[c] # ":" THEN JsonFail(ExpectingColon)
                      ELSE LET v == ScanValue(s, c + 1)
                           IN  IF ~v.ok THEN v
                               ELSE LET d == SkipSpace(s, v.next)
                                        ms == Append(members, [k |-> key.val.s, v |-> v.val])
                                    IN  IF d <= Len(s) /\ s[d] = "}"
                                        THEN JsonOk([t |-> "obj", members |-> ms], d + 1)
                                        ELSE IF d <= Len(s) /\ s[d] = ","
                                        THEN ScanMembers(s, SkipSpace(s, d + 1), ms)
                                        ELSE JsonFail(ExpectingComma)

\* the items of an array from s[i] on, after those already read
ScanElements(s, i, items) ==
    LET v == ScanValue(s, i)
    IN  IF ~v.ok THEN v
        ELSE LET d == SkipSpace(s, v.next)
                 its == Append(items, v.val)
             IN  IF d <= Len(s) /\ s[d] = "]"
                 THEN JsonOk([t |-> "arr", items |-> its], d + 1)
                 ELSE IF d <= Len(s) /\ s[d] = ","
                 THEN ScanElements(s, d + 1, its)
                 ELSE JsonFail(ExpectingComma)

\* json.loads(s): the value, or the JSONDecodeError's complaint
JsonLoads(s) ==
    LET v == ScanValue(s, 1)
    IN  IF ~v.ok THEN v
        ELSE IF SkipSpace(s, v.next) <= Len(s) THEN JsonFail(ExtraData)
        ELSE v

\* obj[key] on a parsed value: the member, or the KeyError / TypeError
KeyErrorMsg(key) == <<"'">> \o key \o <<"'">>
NotSubscriptable(val) ==
    IF val.t = "arr" THEN <<"l","i","s","t"," ","i","n","d","i","c","e","s"," ","m","u","s","t",
      " ","b","e"," ","i","n","t","e","g","e","r","s"," ","o","r"," ",
      "s","l","i","c","e","s",","," ","n","o","t"," ","s","t","r">>
    ELSE IF val.t = "str" THEN <<"s","t","r","i","n","g"," ","i","n","d","i","c","e","s"," ","m","u",
      "s","t"," ","b","e"," ","i","n","t","e","g","e","r","s",","," ",
      "n","o","t"," ","'","s","t","r","'">>
    ELSE <<"'","i","n","t","'"," ","o","b","j","e","c","t"," ","i","s"," ","n",
      "o","t"," ","s","u","b","s","c","r","i","p","t","a","b","l","e">>

Subscript(val, key) ==
    IF val.t # "obj" THEN Raise("name", Exception("TypeError", NotSubscriptable(val)))
    ELSE IF \E i \in 1..Len(val.members) : val.members[i].k = key
    THEN LET i == CHOOSE i \in 1..Len(val.members) :
                      /\ val.members[i].k = key
                      /\ \A j \in (i + 1)..Len(val.members) : val.members[j].k # key
         IN  Return(val.members[i].v)
    ELSE Raise("name", Exception("KeyError", KeyErrorMsg(key)))

NoLowerMsg(val) ==
    IF val.t = "obj" THEN <<"'","d","i","c","t","'"," ","o","b","j","e","c","t"," ","h","a","s",
      " ","n","o"," ","a","t","t","r","i","b","u","t","e"," ","'","l",
      "o","w","e","r","'">>
    ELSE IF val.t = "arr" THEN <<"'","l","i","s","t","'"," ","o","b","j","e","c","t"," ","h","a","s",
      " ","n","o"," ","a","t","t","r","i","b","u","t","e"," ","'","l",
      "o","w","e","r","'">>
    ELSE <<"'","i","n","t","'"," ","o","b","j","e","c","t"," ","h","a","s"," ",
      "n","o"," ","a","t","t","r","i","b","u","t","e"," ","'","l","o",
      "w","e","r","'">>

\* str.replace(" ", "_")
Underscored(s) == [i \in 1..Len(s) |-> IF s[i] = " " THEN "_" ELSE s[i]]

NameMissingMsg == <<"R","e","s","u","m","e"," ","'","c","v",".","n","a","m","e","'"," ",
      "f","i","e","l","d"," ","i","s"," ","m","i","s","s","i","n","g",
      " ","o","r"," ","i","n","v","a","l","i","d",".">>

\* full_name = tailored_resume_json["cv"]["name"].lower().replace(" ", "_"),
\* and the check that it is not empty (lines 471-475)
FullName(tailored_resume_json) ==
    LET cv == Subscript(tailored_resume_json, <<"c","v">>)
    IN  IF cv.kind = "raise" THEN cv
        ELSE LET name == Subscript(cv.value, <<"n","a","m","e">>)
             IN  IF name.kind = "raise" THEN name
                 ELSE IF name.value.t # "str"
                 THEN Raise("name", Exception("AttributeError", NoLowerMsg(name.value)))
                 ELSE IF name.value.s = <<>>
                 THEN Raise("name", Exception("ValueError", NameMissingMsg))
                 ELSE Return(Underscored(Lower(name.value.s)))

\* ------------------------------------------------------------------------
\* Resume tailoring: extraction, parse, and the rendercv hand-off
\* ------------------------------------------------------------------------
InvalidJsonPrefix == <<"I","n","v","a","l","i","d"," ","J","S","O","N"," ","r","e","s","p",
      "o","n","s","e"," ","f","r","o","m"," ","L","L","M",":"," ">>
PdfMissingMsg ==
    <<"F","a","i","l","e","d"," ","t","o"," ","g","e","n","e","r","a","t",
      "e"," ","P","D","F"," ","f","i","l","e"," ","d","e","s","p","i",
      "t","e"," ","s","u","c","c","e","s","s","f","u","l"," ","c","o",
      "m","m","a","n","d"," ","e","x","e","c","u","t","i","o","n",".">>

\* the text up to the first closing fence instead of the last
ExtractTailoredAtFirstFence(json_string) ==
    IF StartsWith(json_string, JsonFence)
    THEN Strip(SplitOnce(SplitOnce(json_string, JsonFence)[2], Fence)[1])
    ELSE IF StartsWith(json_string, Fence)
    THEN Strip(SplitOnce(SplitOnce(json_string, Fence)[2], Fence)[1])
    ELSE Strip(json_string)

\* lines 453-462: the text between the opening fence and the last fence, or
\* the whole output when it starts with no fence
ExtractTailored(json_string) ==
    IF StartsWith(json_string, JsonFence)
    THEN Strip(RSplitOnce(SplitOnce(json_string, JsonFence)[2], Fence)[1])
    ELSE IF StartsWith(json_string, Fence)
    THEN Strip(RSplitOnce(SplitOnce(json_string, Fence)[2], Fence)[1])
    ELSE Strip(json_string)

\* warnings.warn(...) of tailor_resume_endpoint for one LLM output
TailorResumeWarnings(r, private_data_logging) ==
    IF r.kind # "text" THEN <<>>
    ELSE LET json_string == Strip(r.content)
         IN  IF json_string # <<>> /\ ~StartsWith(json_string, Fence)
             THEN <<WithResponse(NoFenceMsg, json_string, private_data_logging)>>
             ELSE <<>>

\* tailor_resume_endpoint, lines 450-462: the empty check and the extraction,
\* from the stripped output to the json_string handed to json.loads
TailorResumeExtract(json_string) ==
    IF json_string = <<>>
    THEN Raise("empty", Exception("ValueError", EmptyOutputMsg))
    ELSE ReturnAt("extract", ExtractTailored(json_string))

\* a JSONDecodeError left to the except clauses of the loop
InvalidJsonRaised(complaint, json_string) ==
    Raise("parse", Exception("JSONDecodeError", complaint))

\* except json.JSONDecodeError as e: the view returns at once, lines 466-467
InvalidJson(complaint, json_string) ==
    ReturnAt("parse",
             Tuple(Jsonify([error |-> InvalidJsonPrefix \o complaint,
                            llm_raw_response |-> json_string]), 500))

\* a try body that goes on to the working directory without parsing
TailorResumeGenerateTrySkipsParse(r) ==
    IF r.kind # "text" THEN Raise("llm", r)
    ELSE LET json_string == TailorResumeExtract(Strip(r.content))
         IN  IF json_string.kind = "raise" THEN json_string
             ELSE ReturnAt("name",
                      [tailored_resume_json |-> [t |-> "obj", members |-> <<>>],
                       full_name |-> <<"x">>])

\* tailor_resume_endpoint, lines 447-475: from the LLM output to full_name;
\* the success value is what the render steps work on
TailorResumeGenerateTry(r) ==
    IF r.kind # "text" THEN Raise("llm", r)
    ELSE LET json_string == TailorResumeExtract(Strip(r.content))
         IN  IF json_string.kind = "raise" THEN json_string
             ELSE LET parsed == JsonLoads(json_string.value)
                  IN  IF ~parsed.ok
                      THEN InvalidJson(parsed.complaint, json_string.value)
                      ELSE LET full_name == FullName(parsed.val)
                           IN  IF full_name.kind = "raise" THEN full_name
                               ELSE ReturnAt("name",
                                        [tailored_resume_json |-> parsed.val,
                                         full_name |-> full_name.value])

\* what rendercv writes to its captured stderr before a non-zero exit
ToolDiagnostic == <<"E","r","r","o","r",":"," ","i","n","v","a","l","i","d"," ","i","n",
      "p","u","t">>

\* the CalledProcessError of subprocess.run(..., capture_output=True,
\* check=True): str() of it is msg, the captured stream is its stderr
CalledProcessError(msg, stderr) ==
    [kind |-> "Exception", type |-> "CalledProcessError", msg |-> msg,
     stderr |-> stderr]

\* str(CalledProcessError) of subprocess.run(new_command, check=True)
NewCommandFailedMsg(full_name, theme) ==
    <<"C","o","m","m","a","n","d"," ","'","[","'","r","e","n","d","e","r",
      "c","v","'",","," ","'","n","e","w","'",","," ","'">> \o full_name
      \o <<"'",","," ","'","-","-","t","h","e","m","e","'",","," ","'">> \o theme
      \o <<"'","]","'"," ","r","e","t","u","r","n","e","d"," ","n","o","n","-",
      "z","e","r","o"," ","e","x","i","t"," ","s","t","a","t","u","s",
      " ","1",".">>

\* str(CalledProcessError) of subprocess.run(render_command, check=True)
RenderCommandFailedMsg(yaml_path_base, final_pdf_path) ==
    <<"C","o","m","m","a","n","d"," ","'","[","'","r","e","n","d","e","r",
      "c","v","'",","," ","'","r","e","n","d","e","r","'",","," ","'">> \o yaml_path_base
      \o <<"'",","," ","'","-","-","p","d","f","-","p","a","t","h","'",","," ",
      "'">> \o final_pdf_path
      \o <<"'",","," ","'","-","-","d","e","s","i","g","n",".","p","a","g","e",
      ".","s","h","o","w","_","l","a","s","t","_","u","p","d","a","t",
      "e","d","_","d","a","t","e","'",","," ","'","f","a","l","s","e",
      "'",","," ">>
      \o <<"'","-","-","l","o","c","a","l","e",".","p","h","o","n","e","_","n",
      "u","m","b","e","r","_","f","o","r","m","a","t","'",","," ","'",
      "i","n","t","e","r","n","a","t","i","o","n","a","l","'","]","'",
      " ">>
      \o <<"r","e","t","u","r","n","e","d"," ","n","o","n","-","z","e","r","o",
      " ","e","x","i","t"," ","s","t","a","t","u","s"," ","1",".">>

\* os.path.join(temp_dir, name): an absolute name replaces the directory
PathJoin(dir, name) ==
    IF StartsWith(name, <<"/">>) THEN name ELSE dir \o <<"/">> \o name

\* the file a path names: empty and '.' components dropped, '..' taken back
RECURSIVE Collapse(_, _)
Collapse(parts, kept) ==
    IF parts = <<>> THEN kept
    ELSE Collapse(Tail(parts),
                  IF Head(parts) \in {<<>>, <<".">>} THEN kept
                  ELSE IF Head(parts) = <<".", ".">>
                  THEN (IF kept = <<>> THEN kept ELSE SubSeq(kept, 1, Len(kept) - 1))
                  ELSE Append(kept, Head(parts)))

RECURSIVE JoinPath(_)
JoinPath(parts) ==
    IF parts = <<>> THEN <<>> ELSE <<"/">> \o Head(parts) \o JoinPath(Tail(parts))

NormPath(path) == JoinPath(Collapse(Split(path, <<"/">>), <<>>))

\* path names a file below the directory dir
Inside(path, dir) == StartsWith(NormPath(path), NormPath(dir) \o <<"/">>)

\* the directories left when the with block of temp_dir is left although the
\* directory is removed only when the block ends without an exception
TemporaryDirectoryExitOnReturn(dirs, temp_dir, outcome) ==
    IF outcome.kind = "raise" THEN dirs ELSE dirs \ {temp_dir}

\* with tempfile.TemporaryDirectory() as temp_dir, line 470: the directories
\* left when the block is left with outcome, a return or an exception
TemporaryDirectoryExit(dirs, temp_dir, outcome) == dirs \ {temp_dir}

\* the files left when temp_dir and all below it is removed
RemoveTree(paths, temp_dir) == {path \in paths : ~Inside(path, temp_dir)}

\* what one "rendercv render" can do: its exit status, and whether the PDF
\* is at final_pdf_path afterwards
RenderExits ==
    { [returncode |-> 1, pdf_exists |-> FALSE],
      [returncode |-> 0, pdf_exists |-> TRUE],
      [returncode |-> 0, pdf_exists |-> FALSE] }

\* f"{full_name}_CV.yaml"
YamlPathBase(full_name) == full_name \o <<"_","C","V",".","y","a","m","l">>

\* yaml.dump(..., default_flow_style=False, sort_keys=False, default_style='"')
\* of a parsed value made of objects, strings, integers and lists of scalars:
\* its lines, at indentation n
Spaces(n) == [i \in 1..n |-> " "]
Quoted(s) == <<Quote>> \o s \o <<Quote>>
YamlScalar(v) == IF v.t = "num" THEN <<"!","!","i","n","t"," ">> \o Quoted(v.s) ELSE Quoted(v.s)

RECURSIVE YamlItems(_, _)
YamlItems(items, n) ==
    IF items = <<>> THEN <<>>
    ELSE <<Spaces(n) \o <<"-"," ">> \o YamlScalar(Head(items))>> \o YamlItems(Tail(items), n)

RECURSIVE YamlMembers(_, _)
YamlMembers(members, n) ==
    IF members = <<>> THEN <<>>
    ELSE LET m == Head(members)
             key == Spaces(n) \o Quoted(m.k) \o <<":">>
             these ==
                 IF m.v.t = "obj"
                 THEN IF m.v.members = <<>> THEN <<key \o <<" ","{","}">>>>
                      ELSE <<key>> \o YamlMembers(m.v.members, n + 2)
                 ELSE IF m.v.t = "arr"
                 THEN IF m.v.items = <<>> THEN <<key \o <<" ","[","]">>>>
                      ELSE <<key>> \o YamlItems(m.v.items, n)
                 ELSE <<key \o <<" ">> \o YamlScalar(m.v)>>
         IN  these \o YamlMembers(Tail(members), n)

\* re.sub(r'^(\s*)(-\s+)?"([^"]+)":(\s)', r'\1\2\3:\4', ..., flags=re.MULTILINE)
\* on one line of the dump: the quotes around a leading key are removed
UnquoteKey(line) ==
    LET afterIndent == LStrip(line)
        afterDash == IF StartsWith(afterIndent, <<"-"," ">>)
                     THEN LStrip(Tail(afterIndent)) ELSE afterIndent
        lead == SubSeq(line, 1, Len(line) - Len(afterDash))
        close == Find(Tail(afterDash), <<Quote>>) + 1
    IN  IF /\ StartsWith(afterDash, <<Quote>>)
           /\ close > 2
           /\ close + 1 <= Len(afterDash)
           /\ afterDash[close + 1] = ":"
           /\ (close + 2 > Len(afterDash) \/ IsSpace(afterDash[close + 2]))
        THEN lead \o SubSeq(afterDash, 2, close - 1)
                  \o SubSeq(afterDash, close + 1, Len(afterDash))
        ELSE line

\* the lines joined, each ended by a newline
RECURSIVE JoinLines(_)
JoinLines(lines) ==
    IF lines = <<>> THEN <<>> ELSE Head(lines) \o NewLine \o JoinLines(Tail(lines))

\* yaml_string of lines 487-490
YamlString(tailored_resume_json) ==
    LET lines == YamlMembers(tailored_resume_json.members, 0)
    IN  JoinLines([i \in 1..Len(lines) |-> UnquoteKey(lines[i])])

DesignToken == <<"d","e","s","i","g","n",":">>

\* end_of_file_content of lines 495-499
EndOfFileContent(existing_content) ==
    LET split_index == Find(existing_content, DesignToken)
    IN  IF split_index = 0 THEN <<>>
        ELSE Strip(SubSeq(existing_content, split_index, Len(existing_content)))

\* what lines 501-504 write to the yaml file
CombinedYaml(yaml_string, existing_content) ==
    Strip(Strip(yaml_string) \o NewLine \o EndOfFileContent(existing_content) \o NewLine)

\* base64.b64encode(pdf_bytes).decode('utf-8')
Base64(pdf_bytes) == [kind |-> "base64", of |-> pdf_bytes]

\* ------------------------------------------------------------------------
\* Requests and what the LLM and rendercv can answer
\* ------------------------------------------------------------------------
Endpoints == {"get_resume_json", "generate_search_query", "analyze_job_posting",
              "generate_cover_letter", "tailor_resume"}

\* a tailoring that does not test the filename
RequiredFieldsWithoutFilename(endpoint) ==
    IF endpoint = "get_resume_json" THEN {"resume_content"}
    ELSE IF endpoint = "generate_search_query" THEN {"resume_json_data"}
    ELSE {"job_posting_text", "resume_json_data"}

\* the fields each handler requires before its loop
RequiredFields(endpoint) ==
    IF endpoint = "get_resume_json" THEN {"resume_content"}
    ELSE IF endpoint = "generate_search_query" THEN {"resume_json_data"}
    ELSE IF endpoint = "tailor_resume"
    THEN {"job_posting_text", "resume_json_data", "filename"}
    ELSE {"job_posting_text", "resume_json_data"}

MissingFieldsMsg(endpoint) ==
    IF endpoint = "get_resume_json" THEN <<"M","i","s","s","i","n","g"," ","'","r","e","s","u","m","e","_","c",
      "o","n","t","e","n","t","'">>
    ELSE IF endpoint = "generate_search_query" THEN <<"M","i","s","s","i","n","g"," ","'","r","e","s","u","m","e","_","j",
      "s","o","n","_","d","a","t","a","'">>
    ELSE IF endpoint = "tailor_resume"
    THEN <<"M","i","s","s","i","n","g"," ","'","j","o","b","_","p","o","s","t",
      "i","n","g","_","t","e","x","t","'",","," ","'","r","e","s","u",
      "m","e","_","j","s","o","n","_","d","a","t","a","'",","," ","o",
      "r"," ","'","f","i","l","e","n","a","m","e","'">>
    ELSE <<"M","i","s","s","i","n","g"," ","'","j","o","b","_","p","o","s","t",
      "i","n","g","_","t","e","x","t","'"," ","o","r"," ","'","r","e",
      "s","u","m","e","_","j","s","o","n","_","d","a","t","a","'">>

\* handlers that read private_data_logging
ReadsLoggingFlag(endpoint) ==
    endpoint \in {"get_resume_json", "analyze_job_posting", "tailor_resume"}

\* theme = data.get('theme', 'engineeringclassic')
DefaultTheme == <<"e","n","g","i","n","e","e","r","i","n","g","c","l","a","s","s","i",
      "c">>

\* filenames a caller sends
Filenames == { <<"c","v",".","p","d","f">>, <<".",".","/","4","2","9",".","p","d","f">>, <<"/","s","r","v","/","c","v",".","p","d","f">> }

\* names tempfile.TemporaryDirectory() picks
TempDirNames == { <<"/","t","m","p","/","t","m","p","a","b">>, <<"/","t","m","p","/","t","m","p","4","2","9">> }

HTTPError(has_response, status_code, msg) ==
    [kind |-> "HTTPError", has_response |-> has_response,
     status_code |-> status_code, msg |-> msg]

Text(content) == [kind |-> "text", content |-> content]

\* the yaml file of the temporary directory with its content
File(content) == [kind |-> "file", content |-> content]

\* ways llm.chat() fails
LlmFailures ==
    { HTTPError(TRUE, 429, <<"4","2","9"," ","C","l","i","e","n","t"," ","E","r","r","o","r">>),
      HTTPError(TRUE, 503, <<"5","0","3"," ","S","e","r","v","e","r"," ","E","r","r","o","r">>),
      HTTPError(TRUE, 500, <<"5","0","0"," ","S","e","r","v","e","r"," ","E","r","r","o","r">>),
      HTTPError(TRUE, 400, <<"4","0","0"," ","Q","u","o","t","a">>),
      HTTPError(FALSE, 0, <<"n","o"," ","r","e","s","p","o","n","s","e">>),
      Exception("RuntimeError", <<"t","i","m","e","d"," ","o","u","t">>),
      Exception("RuntimeError", <<"Q","u","o","t","a"," ","e","x","c","e","e","d","e","d">>) }

\* texts llm.chat() returns, per handler
LlmTexts(endpoint) ==
    IF endpoint = "get_resume_json"
    THEN { Text(<<Backtick,Backtick,Backtick,"j","s","o","n","\n","{","}","\n",Backtick,
      Backtick,Backtick,"\n">>),
           Text(<<"{","}">>),
           Text(<<"m","y"," ","q","u","o","t","a">>),
           Text(<<Backtick,Backtick,Backtick,"j","s","o","n","\n","{","}","\n",Backtick,
      Backtick,Backtick,"\n","o","k">>) }
    ELSE IF endpoint = "analyze_job_posting"
    THEN { Text(<<Backtick,Backtick,Backtick,"h","t","m","l","\n","#"," ","a"," ","@",
      " ","b","\n","c","\n",Backtick,Backtick,Backtick>>),
           Text(<<"a"," ","@"," ","b"," ","@"," ","c","\n","d">>),
           Text(<<"a","@","b">>),
           Text(<<"n","o"," ","i","d","\n","c">>),
           Text(<<" ","\n">>) }
    ELSE IF endpoint = "tailor_resume"
    THEN { Text(<<Backtick,Backtick,Backtick,"j","s","o","n","\n","{","\"","c","v","\"",
      ":","{","\"","n","a","m","e","\"",":","\"","A"," ","B","\"","}",
      "}","\n",Backtick,Backtick,Backtick>>),
           Text(<<"{","\"","c","v","\"",":"," ","{","\"","n","a","m","e","\"",":"," ",
      "\"","A","\"","}","}">>),
           Text(<<Backtick,Backtick,Backtick,"\n","{","\"","c","v","\"",":","{","\"",
      "n","a","m","e","\"",":","\"","\"","}","}","\n",Backtick,Backtick,
      Backtick>>),
           Text(<<Backtick,Backtick,Backtick,"j","s","o","n","\n","{","\"","c","v","\"",
      ":","\n",Backtick,Backtick,Backtick>>),
           Text(<<Backtick,Backtick,Backtick,"j","s","o","n","\n","[","1","]","\n",
      Backtick,Backtick,Backtick>>),
           Text(<<"\n">>) }
    ELSE { Text(<<" ","q"," ","\n">>) }

LlmOutcomes(endpoint) == LlmFailures \cup LlmTexts(endpoint)

\* what "rendercv new" leaves in <full_name>_CV.yaml
ScaffoldContents ==
    { <<"c","v",":","\n"," "," ","n","a","m","e",":"," ","x","\n","d","e","s",
      "i","g","n",":","\n"," "," ","t","h","e","m","e",":"," ","t",
      "\n">>,
      <<"c","v",":","\n"," "," ","r","e","d","e","s","i","g","n",":"," ","x",
      "\n","d","e","s","i","g","n",":","\n"," "," ","t","h","e","m","e",
      ":"," ","t","\n">>,
      <<"c","v",":","\n"," "," ","n","a","m","e",":"," ","x","\n">> }

PdfBytes == "%PDF"

\* ------------------------------------------------------------------------
\* State
\* ------------------------------------------------------------------------
VARIABLES
    pc,                    \* position of the request
    endpoint,              \* the route requested
    auth_header,           \* its Authorization header
    fields,                \* the required fields its body has
    private_data_logging,  \* data.get('private_data_logging', False)
    api_key,               \* a Gemini key is available (caller's or environment's)
    format_file,           \* job_analysis_format.html can be read
    filename,              \* data.get('filename')
    attempt,               \* loop variable of the retry loop
    last_error,            \* last_error of the handler
    retval,                \* what the view returned, None while running
    llm_calls,             \* llm.chat() calls made for the request
    scaffold_calls,        \* "rendercv new" runs
    render_calls,          \* "rendercv render" runs
    log,                   \* one entry per finished iteration
    warned,                \* messages given to warnings.warn
    temp_dirs,             \* temporary directories that exist
    job,                   \* values of the iteration in progress (tailoring)
    yaml_file,             \* content of the yaml file in the temporary directory
    render_input,          \* the yaml file as the last "rendercv render" read it
    document,              \* cleaned_output handed to the identifier split
    split_result,          \* result of the split, or NotRun
    raw_output,            \* response.message.content handed to an extraction
    extracted,             \* what the extraction made of it, or NotRun
    files,                 \* paths of the files the request wrote that exist
    renders                \* exit status and PDF presence of each "rendercv render"

request_vars == <<endpoint, auth_header, fields, private_data_logging, api_key,
                  format_file, filename>>
counters == <<llm_calls, scaffold_calls, render_calls>>
split_vars == <<document, split_result>>
extract_vars == <<raw_output, extracted>>
renderer_vars == <<files, renders>>
vars == <<pc, request_vars, attempt, last_error, retval, counters, log, warned,
          temp_dirs, job, yaml_file, render_input, split_vars, extract_vars,
                   renderer_vars>>

NotRun == [kind |-> "none"]

\* concatenation of a sequence of strings
RECURSIVE Concat(_)
Concat(ps) == IF ps = <<>> THEN <<>> ELSE Head(ps) \o Concat(Tail(ps))

\* all strings made of at most n pieces
Strings(n) == {Concat(ps) : ps \in UNION {[1..k -> Pieces] : k \in 0..n}}

\* cleaned_output is always the result of a strip()
Documents == {s \in Strings(MaxDocPieces) : Strip(s) = s}

\* the handler state before a request
Idle ==
    /\ attempt = 0
    /\ last_error = None
    /\ retval = None
    /\ llm_calls = 0
    /\ scaffold_calls = 0
    /\ render_calls = 0
    /\ log = <<>>
    /\ warned = <<>>
    /\ temp_dirs = {}
    /\ job = None
    /\ yaml_file = None
    /\ render_input = None
    /\ files = {}
    /\ renders = <<>>

\* a request arrives at one of the five routes
Init ==
    /\ pc = "jwt_required"
    /\ endpoint \in Endpoints
    /\ auth_header \in AuthHeaders
    /\ fields \in SUBSET RequiredFields(endpoint)
    /\ private_data_logging \in IF ReadsLoggingFlag(endpoint) THEN BOOLEAN ELSE {FALSE}
    /\ api_key \in BOOLEAN
    /\ format_file \in IF endpoint = "analyze_job_posting" THEN BOOLEAN ELSE {TRUE}
    /\ filename \in IF endpoint = "tailor_resume" /\ "filename" \in fields
                    THEN Filenames ELSE {<<>>}
    /\ Idle
    /\ document = <<>>
    /\ split_result = NotRun
    /\ raw_output = <<>>
    /\ extracted = NotRun

\* ------------------------------------------------------------------------
\* Actions
\* ------------------------------------------------------------------------
\* jwt_required: the wrapper answers 401 itself, or calls the view
JwtRequired ==
    /\ pc = "jwt_required"
    /\ LET user == GetJwtUserId(auth_header)
       IN  IF user.kind = "Unauthorized"
           THEN /\ retval' = Tuple(Jsonify([error |-> user.msg]), 401)
                /\ pc' = "done"
           ELSE /\ pc' = "view"
                /\ UNCHANGED retval
    /\ UNCHANGED <<request_vars, attempt, last_error, counters, log, warned,
                   temp_dirs, job, yaml_file, render_input, split_vars, extract_vars,
                   renderer_vars>>

\* the start of each view: the required fields, then the loop is entered
CheckFields ==
    /\ pc = "view"
    /\ IF fields # RequiredFields(endpoint)
       THEN /\ retval' = Tuple(Jsonify([error |-> MissingFieldsMsg(endpoint)]), 400)
            /\ pc' = "done"
       ELSE /\ pc' = "loop"
            /\ UNCHANGED retval
    /\ UNCHANGED <<request_vars, attempt, last_error, counters, log, warned,
                   temp_dirs, job, yaml_file, render_input, split_vars, extract_vars,
                   renderer_vars>>

\* the entry an iteration leaves in the log: what llm.chat() produced (None
\* when it was not reached), the step the try body ended in, the exception
\* it raised and what the handler did with it
LogEntry(outcome, handled, r) ==
    [llm |-> r,
     step |-> outcome.step,
     exc |-> IF outcome.kind = "raise" THEN outcome.exc ELSE None,
     handled |-> handled.kind]

\* a try body whose result is kept instead of returned
HandleKeepsResult(outcome) ==
    IF outcome.kind = "raise" THEN Except(outcome.exc)
    ELSE [kind |-> "record", last_error |-> outcome.value]

\* try/except of one iteration: a value returned by the try body leaves the
\* view, an exception goes through the except clauses
Handle(outcome) ==
    IF outcome.kind = "raise" THEN Except(outcome.exc)
    ELSE [kind |-> "return", value |-> outcome.value]

\* the end of one iteration of "for attempt in range(max_attempts)": outcome
\* is what the try body did; the except clauses, the print, and after the
\* last iteration the return behind the loop
\* (a value is bound with \E over a singleton where it is used several times)
FinishIteration(outcome, r) ==
    \E handled \in {Handle(outcome)} :
        /\ log' = Append(log, LogEntry(outcome, handled, r))
        /\ IF handled.kind = "return"
           THEN /\ retval' = handled.value
                /\ pc' = "done"
                /\ UNCHANGED <<attempt, last_error>>
           ELSE IF handled.kind = "escape"
           THEN /\ retval' = [kind |-> "unhandled", type |-> handled.type]
                /\ pc' = "done"
                /\ UNCHANGED <<attempt, last_error>>
           ELSE /\ last_error' = handled.last_error
                /\ IF attempt + 1 < MaxAttempts
                   THEN /\ attempt' = attempt + 1
                        /\ pc' = "loop"
                        /\ UNCHANGED retval
                   ELSE /\ retval' = FinalReturn(handled.last_error)
                        /\ pc' = "done"
                        /\ UNCHANGED attempt

\* llm.chat() is reached when get_llm (and what precedes it) did not raise
CallsLlm(before) == before.kind # "raise"

\* one iteration of get_resume_json_endpoint
GetResumeJsonAttempt ==
    /\ pc = "loop"
    /\ endpoint = "get_resume_json"
    /\ attempt < MaxAttempts
    /\ \E r \in LlmOutcomes(endpoint) :
          \E outcome \in {IF CallsLlm(GetLlm(api_key))
                           THEN GetResumeJsonTry(r, private_data_logging)
                           ELSE GetLlm(api_key)} :
              /\ llm_calls' = IF CallsLlm(GetLlm(api_key)) THEN llm_calls + 1
                              ELSE llm_calls
              /\ FinishIteration(outcome, IF outcome.step \in {"get_llm", "open"}
                                           THEN None ELSE r)
    /\ UNCHANGED <<request_vars, scaffold_calls, render_calls, warned, temp_dirs,
                   job, yaml_file, render_input, split_vars, extract_vars,
                   renderer_vars>>

\* one iteration of generate_search_query_endpoint
GenerateSearchQueryAttempt ==
    /\ pc = "loop"
    /\ endpoint = "generate_search_query"
    /\ attempt < MaxAttempts
    /\ \E r \in LlmOutcomes(endpoint) :
          \E outcome \in {IF CallsLlm(GetLlm(api_key)) THEN GenerateSearchQueryTry(r)
                           ELSE GetLlm(api_key)} :
              /\ llm_calls' = IF CallsLlm(GetLlm(api_key)) THEN llm_calls + 1
                              ELSE llm_calls
              /\ FinishIteration(outcome, IF outcome.step \in {"get_llm", "open"}
                                           THEN None ELSE r)
    /\ UNCHANGED <<request_vars, scaffold_calls, render_calls, warned, temp_dirs,
                   job, yaml_file, render_input, split_vars, extract_vars,
                   renderer_vars>>

\* one iteration of analyze_job_posting_endpoint
AnalyzeJobPostingAttempt ==
    /\ pc = "loop"
    /\ endpoint = "analyze_job_posting"
    /\ attempt < MaxAttempts
    /\ \E r \in LlmOutcomes(endpoint) :
          \E before \in {IF OpenFormatFile(format_file).kind = "raise"
                          THEN OpenFormatFile(format_file) ELSE GetLlm(api_key)} :
          \E outcome \in {IF CallsLlm(before) THEN AnalyzeJobPostingTry(r) ELSE before} :
              /\ llm_calls' = IF CallsLlm(before) THEN llm_calls + 1 ELSE llm_calls
              /\ warned' = IF CallsLlm(before)
                           THEN warned \o AnalyzeJobPostingWarnings(r, private_data_logging)
                           ELSE warned
              /\ FinishIteration(outcome, IF outcome.step \in {"get_llm", "open"}
                                           THEN None ELSE r)
    /\ UNCHANGED <<request_vars, scaffold_calls, render_calls, temp_dirs,
                   job, yaml_file, render_input, split_vars, extract_vars,
                   renderer_vars>>

\* one iteration of generate_cover_letter_endpoint
GenerateCoverLetterAttempt ==
    /\ pc = "loop"
    /\ endpoint = "generate_cover_letter"
    /\ attempt < MaxAttempts
    /\ \E r \in LlmOutcomes(endpoint) :
          \E outcome \in {IF CallsLlm(GetLlm(api_key)) THEN GenerateCoverLetterTry(r)
                           ELSE GetLlm(api_key)} :
              /\ llm_calls' = IF CallsLlm(GetLlm(api_key)) THEN llm_calls + 1
                              ELSE llm_calls
              /\ FinishIteration(outcome, IF outcome.step \in {"get_llm", "open"}
                                           THEN None ELSE r)
    /\ UNCHANGED <<request_vars, scaffold_calls, render_calls, warned, temp_dirs,
                   job, yaml_file, render_input, split_vars, extract_vars,
                   renderer_vars>>

\* a render that ended with exit status zero is taken for a success
RenderTryTrustsExit(exit, tailored_resume_json, yaml_path_base, final_pdf_path) ==
    IF exit.returncode # 0
    THEN Raise("render",
               CalledProcessError(RenderCommandFailedMsg(yaml_path_base, final_pdf_path),
                                  ToolDiagnostic))
    ELSE Return(Jsonify([tailored_resume_json |-> tailored_resume_json,
                         pdf_base64_string |-> Base64(PdfBytes)]))

\* tailor_resume_endpoint, lines 506-525: "rendercv render" ended as exit
\* says; CalledProcessError on a non-zero status, the check for the PDF, and
\* the response
RenderTry(exit, tailored_resume_json, yaml_path_base, final_pdf_path) ==
    IF exit.returncode # 0
    THEN Raise("render",
               CalledProcessError(RenderCommandFailedMsg(yaml_path_base, final_pdf_path),
                                  ToolDiagnostic))
    ELSE IF ~exit.pdf_exists
    THEN Raise("pdf", Exception("Exception", PdfMissingMsg))
    ELSE Return(Jsonify([tailored_resume_json |-> tailored_resume_json,
                         pdf_base64_string |-> Base64(PdfBytes)]))

\* tailor_resume_endpoint, lines 429-475: the LLM call, extraction and parse;
\* the temporary directory is made once the JSON is parsed: when full_name is
\* found the iteration goes on to the scaffold inside it, otherwise the with
\* block is left at once
TailorResumeGenerate ==
    /\ pc = "loop"
    /\ endpoint = "tailor_resume"
    /\ attempt < MaxAttempts
    /\ \E r \in LlmOutcomes(endpoint) :
          \E before \in {GetLlm(api_key)} :
          \E outcome \in {IF CallsLlm(before) THEN TailorResumeGenerateTry(r) ELSE before} :
              /\ llm_calls' = IF CallsLlm(before) THEN llm_calls + 1 ELSE llm_calls
              /\ warned' = IF CallsLlm(before)
                           THEN warned \o TailorResumeWarnings(r, private_data_logging)
                           ELSE warned
              /\ IF outcome.kind = "return" /\ outcome.step = "name"
                 THEN /\ \E temp_dir \in TempDirNames :
                            /\ job' = [tailored_resume_json |->
                                           outcome.value.tailored_resume_json,
                                       full_name |-> outcome.value.full_name,
                                       temp_dir |-> temp_dir,
                                       llm |-> r]
                            /\ temp_dirs' = temp_dirs \cup {temp_dir}
                      /\ pc' = "scaffold"
                      /\ UNCHANGED <<attempt, last_error, retval, log>>
                 ELSE /\ FinishIteration(outcome, IF outcome.step = "get_llm"
                                                   THEN None ELSE r)
                      /\ IF outcome.step = "name"
                         THEN \E temp_dir \in TempDirNames :
                                 temp_dirs' = TemporaryDirectoryExit(
                                                  temp_dirs \cup {temp_dir}, temp_dir, outcome)
                         ELSE UNCHANGED temp_dirs
                      /\ UNCHANGED job
    /\ UNCHANGED <<request_vars, scaffold_calls, render_calls, yaml_file, render_input,
                   split_vars, extract_vars, renderer_vars>>

\* tailor_resume_endpoint, lines 477-481: "rendercv new" leaves the yaml file
\* in the directory; a non-zero exit raises CalledProcessError and the with
\* block removes the directory
TailorResumeScaffold ==
    /\ pc = "scaffold"
    /\ scaffold_calls' = scaffold_calls + 1
    /\ \/ \E content \in ScaffoldContents :
             /\ yaml_file' = File(content)
             /\ files' = files \cup {PathJoin(job.temp_dir, YamlPathBase(job.full_name))}
             /\ pc' = "render"
             /\ UNCHANGED <<attempt, last_error, retval, log, temp_dirs, job>>
       \/ \E outcome \in {Raise("scaffold",
                              CalledProcessError(NewCommandFailedMsg(job.full_name,
                                                                     DefaultTheme),
                                                 ToolDiagnostic))} :
             /\ FinishIteration(outcome, job.llm)
             /\ temp_dirs' = TemporaryDirectoryExit(temp_dirs, job.temp_dir, outcome)
             /\ files' = RemoveTree(files, job.temp_dir)
             /\ job' = None
             /\ UNCHANGED yaml_file
    /\ UNCHANGED <<request_vars, llm_calls, render_calls, warned, render_input,
                   split_vars, extract_vars, renders>>

\* tailor_resume_endpoint, lines 483-525: the splice, "rendercv render", the
\* check for the PDF and the response; the with block removes the directory
TailorResumeRender ==
    /\ pc = "render"
    /\ render_calls' = render_calls + 1
    /\ yaml_file' = None
    /\ render_input' = File(CombinedYaml(YamlString(job.tailored_resume_json),
                                         yaml_file.content))
    /\ \E final_pdf_path \in {PathJoin(job.temp_dir, filename)} :
       \E exit \in RenderExits :
       \E outcome \in {RenderTry(exit, job.tailored_resume_json,
                                 YamlPathBase(job.full_name), final_pdf_path)} :
           /\ renders' = Append(renders, [attempt |-> attempt,
                                          returncode |-> exit.returncode,
                                          pdf_exists |-> exit.pdf_exists])
           /\ files' = RemoveTree(files \cup (IF exit.pdf_exists THEN {final_pdf_path}
                                              ELSE {}),
                                  job.temp_dir)
           /\ temp_dirs' = TemporaryDirectoryExit(temp_dirs, job.temp_dir, outcome)
           /\ job' = None
           /\ FinishIteration(outcome, job.llm)
    /\ UNCHANGED <<request_vars, llm_calls, scaffold_calls, warned, split_vars,
                   extract_vars>>

Next ==
    \/ JwtRequired
    \/ CheckFields
    \/ GetResumeJsonAttempt
    \/ GenerateSearchQueryAttempt
    \/ AnalyzeJobPostingAttempt
    \/ GenerateCoverLetterAttempt
    \/ TailorResumeGenerate
    \/ TailorResumeScaffold
    \/ TailorResumeRender

Spec == Init /\ [][Next]_vars

\* ------------------------------------------------------------------------
\* The identifier split on its own, over every document within the bound
\* ------------------------------------------------------------------------
InitSplit ==
    /\ pc = "split"
    /\ endpoint = "analyze_job_posting"
    /\ auth_header = "bearer_valid"
    /\ fields = RequiredFields("analyze_job_posting")
    /\ private_data_logging = FALSE
    /\ api_key = TRUE
    /\ format_file = TRUE
    /\ filename = <<>>
    /\ Idle
    /\ document \in Documents
    /\ split_result = NotRun
    /\ raw_output = <<>>
    /\ extracted = NotRun

\* lines 290-306 applied to one document
ApplySplit ==
    /\ pc = "split"
    /\ split_result = NotRun
    /\ split_result' = SplitIdentifier(document)
    /\ UNCHANGED <<pc, request_vars, attempt, last_error, retval, counters, log,
                   warned, temp_dirs, job, yaml_file, render_input, document,
                   extract_vars, renderer_vars>>

NextSplit == ApplySplit

SpecSplit == InitSplit /\ [][NextSplit]_vars

\* ------------------------------------------------------------------------
\* The fence extraction on its own, over every response within the bound
\* ------------------------------------------------------------------------
\* pieces the enumerated responses are built from: the three fence markers
\* as one piece each, a lone grave accent, white space and a payload letter
OutputPieces == {JsonFence, HtmlFence, Fence, <<Backtick>>, <<" ">>, <<"\n">>, <<"x">>}

\* response.message.content of the enumerated responses
Responses ==
    {Concat(ps) : ps \in UNION {[1..k -> OutputPieces] : k \in 0..MaxOutputPieces}}

\* handlers that extract a fenced payload
Extractors == {"get_resume_json", "analyze_job_posting", "tailor_resume"}

InitExtract ==
    /\ pc = "extract"
    /\ endpoint \in Extractors
    /\ auth_header = "bearer_valid"
    /\ fields = RequiredFields(endpoint)
    /\ private_data_logging = FALSE
    /\ api_key = TRUE
    /\ format_file = TRUE
    /\ filename = <<>>
    /\ Idle
    /\ document = <<>>
    /\ split_result = NotRun
    /\ raw_output \in Responses
    /\ extracted = NotRun

\* lines 146-155 of get_resume_json_endpoint applied to one response
ExtractResumeJson ==
    /\ pc = "extract"
    /\ endpoint = "get_resume_json"
    /\ extracted = NotRun
    /\ extracted' = GetResumeJsonTry(Text(raw_output), private_data_logging)
    /\ UNCHANGED <<pc, request_vars, attempt, last_error, retval, counters, log,
                   warned, temp_dirs, job, yaml_file, render_input, split_vars,
                   raw_output, renderer_vars>>

\* lines 276-288 of analyze_job_posting_endpoint applied to one response
ExtractJobAnalysis ==
    /\ pc = "extract"
    /\ endpoint = "analyze_job_posting"
    /\ extracted = NotRun
    /\ extracted' = AnalyzeJobPostingExtract(Strip(raw_output))
    /\ warned' = warned \o AnalyzeJobPostingWarnings(Text(raw_output), private_data_logging)
    /\ UNCHANGED <<pc, request_vars, attempt, last_error, retval, counters, log,
                   temp_dirs, job, yaml_file, render_input, split_vars,
                   raw_output, renderer_vars>>

\* lines 448-462 of tailor_resume_endpoint applied to one response
ExtractTailoredResume ==
    /\ pc = "extract"
    /\ endpoint = "tailor_resume"
    /\ extracted = NotRun
    /\ extracted' = TailorResumeExtract(Strip(raw_output))
    /\ warned' = warned \o TailorResumeWarnings(Text(raw_output), private_data_logging)
    /\ UNCHANGED <<pc, request_vars, attempt, last_error, retval, counters, log,
                   temp_dirs, job, yaml_file, render_input, split_vars,
                   raw_output, renderer_vars>>

NextExtract ==
    \/ ExtractResumeJson
    \/ ExtractJobAnalysis
    \/ ExtractTailoredResume

SpecExtract == InitExtract /\ [][NextExtract]_vars

\* ------------------------------------------------------------------------
\* Properties
\* ------------------------------------------------------------------------
\* iteration entry e failed with an HTTPError carrying the status code
HttpFailure(e, code) ==
    /\ e.exc.kind = "HTTPError"
    /\ e.exc.has_response
    /\ e.exc.status_code = code

\* iterations among the first n that got as far as llm.chat()
LlmCallsUpTo(n) == Cardinality({j \in 1..n : log[j].llm.kind # "None"})

\* C1: an attempt that fails with an HTTP failure of status 429 or 503 is the
\* last attempt of the request: the view has returned RateLimited (429) or
\* ServiceUnavailable (503), and the LLM was called once per attempt up to
\* that one and not again; a 429 on the first attempt leaves exactly one call.
C1_BackpressureEndsRequest ==
    \A i \in 1..Len(log) :
        (HttpFailure(log[i], 429) \/ HttpFailure(log[i], 503)) =>
            /\ i = Len(log)
            /\ pc = "done"
            /\ retval = IF HttpFailure(log[i], 429) THEN RateLimitReturn
                        ELSE UnavailableReturn
            /\ llm_calls = LlmCallsUpTo(i)
            /\ llm_calls <= i
            /\ (i = 1 => llm_calls = 1)

\* a second attempt of resume tailoring met a 503 and the request ended there
C1_Witness ==
    /\ pc = "done"
    /\ endpoint = "tailor_resume"
    /\ Len(log) = 2
    /\ HttpFailure(log[2], 503)
    /\ retval = UnavailableReturn
    /\ llm_calls = 2

\* iteration entry e failed with a failure that is neither 429/503 nor
\* carries a rate-limit phrase in its message
GenericFailure(e) ==
    /\ e.exc.kind \in {"HTTPError", "Exception"}
    /\ ~HasRateLimitPhrase(Lower(e.exc.msg))
    /\ e.exc.kind = "HTTPError" =>
          e.exc.has_response /\ e.exc.status_code \notin {429, 503}

\* C2: when every attempt of a request has failed with a generic failure, the
\* loop has run exactly 3 times, and every attempt that got as far as the LLM
\* call made a call of its own: 3 LLM calls when the failures arose in the
\* call or after it.
C2_GenericFailureRunsThreeAttempts ==
    (pc = "done" /\ log # <<>> /\ \A i \in 1..Len(log) : GenericFailure(log[i])) =>
        /\ Len(log) = 3
        /\ llm_calls = LlmCallsUpTo(3)
        /\ (\A i \in 1..3 : log[i].step \notin {"get_llm", "open"}) => llm_calls = 3

\* three attempts of cover-letter generation failed in the LLM call
C2_Witness ==
    /\ pc = "done"
    /\ endpoint = "generate_cover_letter"
    /\ Len(log) = 3
    /\ \A i \in 1..3 : GenericFailure(log[i]) /\ log[i].step = "llm"
    /\ llm_calls = 3

\* C3 (as claimed): when the loop has used its 3 attempts, the view returns
\* the error recorded for the last attempt, a Response with the single
\* status 500.
C3_ExhaustionReturnsLastError ==
    (pc = "done" /\ Len(log) = 3 /\ log[3].handled = "record") =>
        /\ retval.kind = "tuple"
        /\ retval.first.kind = "Response"
        /\ retval.second = 500
        /\ retval = last_error

\* C4: a successful attempt is the last one: the view has returned the value
\* of that attempt (for the search query, the trimmed LLM text), not an error
\* tuple, and the LLM was called once per attempt and not again; success on
\* the second attempt means exactly two calls.
C4_SuccessEndsRequest ==
    \A i \in 1..Len(log) :
        log[i].step = "success" =>
            /\ i = Len(log)
            /\ pc = "done"
            /\ retval.kind \in {"Response", "str"}
            /\ llm_calls = i
            /\ endpoint = "generate_search_query" =>
                  retval = Jsonify([search_query |-> Strip(log[i].llm.content)])

\* a search query that failed once and then succeeded
C4_Witness ==
    /\ pc = "done"
    /\ endpoint = "generate_search_query"
    /\ Len(log) = 2
    /\ GenericFailure(log[1])
    /\ log[2].step = "success"
    /\ llm_calls = 2

\* C5: a request without a valid bearer token never gets into a view: no LLM
\* call, no rendercv run, and its response is the 401 denial.
C5_DenialCostsNothing ==
    auth_header # "bearer_valid" =>
        /\ pc \in {"jwt_required", "done"}
        /\ llm_calls = 0
        /\ scaffold_calls = 0
        /\ render_calls = 0
        /\ log = <<>>
        /\ pc = "done" => (retval.kind = "tuple" /\ retval.second = 401)

\* a complete tailoring request with an expired token was denied
C5_Witness ==
    /\ pc = "done"
    /\ endpoint = "tailor_resume"
    /\ fields = RequiredFields(endpoint)
    /\ auth_header = "bearer_expired"
    /\ retval = Tuple(Jsonify([error |-> TokenExpiredMsg]), 401)

\* the header line job analysis derives from the LLM output of entry e
HeaderOf(e) == JobId(SplitLines(ExtractHtml(Strip(e.llm.content))))

\* entry e of a job analysis got an output whose header line has no '@'
MissingIdentifier(e) ==
    /\ endpoint = "analyze_job_posting"
    /\ e.llm.kind = "text"
    /\ Strip(e.llm.content) # <<>>
    /\ ~Contains(HeaderOf(e), AtSign)

\* C6 (as claimed): a missing job identifier ends the request at the attempt
\* where it occurs.
C6_MissingIdentifierIsFatal ==
    \A i \in 1..Len(log) :
        MissingIdentifier(log[i]) => (i = Len(log) /\ pc = "done")

\* C6 (amended): a missing job identifier is recorded as the attempt's error
\* and retried: after a first or second attempt that met it the request is
\* still in its loop with nothing returned, and the attempt that follows
\* calls the LLM again.
C6_MissingIdentifierIsRetried ==
    \A i \in 1..Len(log) :
        MissingIdentifier(log[i]) =>
            /\ log[i].handled = "record"
            /\ (i = Len(log) /\ i < 3) =>
                  /\ pc = "loop"
                  /\ retval = None
                  /\ last_error = Tuple(Jsonify([error |-> MissingJobIdMsg]), 500)
            /\ i < Len(log) => log[i + 1].llm.kind # "None"
            /\ llm_calls = Len(log)

\* an analysis whose first output had no identifier succeeded on the retry
C6_Witness ==
    /\ pc = "done"
    /\ Len(log) = 2
    /\ MissingIdentifier(log[1])
    /\ log[2].step = "success"
    /\ llm_calls = 2

\* entry e of a tailoring got an output whose extracted text json.loads rejects
Unparseable(e) ==
    /\ endpoint = "tailor_resume"
    /\ e.llm.kind = "text"
    /\ Strip(e.llm.content) # <<>>
    /\ ~JsonLoads(ExtractTailored(Strip(e.llm.content))).ok

\* rendercv runs of the iterations before the i-th
ScaffoldsBefore(i) ==
    Cardinality({j \in 1..(i - 1) : log[j].step \in {"scaffold", "render", "pdf", "success"}})
RendersBefore(i) ==
    Cardinality({j \in 1..(i - 1) : log[j].step \in {"render", "pdf", "success"}})

\* C7: in resume tailoring an attempt whose extracted output is not parseable
\* JSON is the last one: the view has returned status 500 with the parser's
\* complaint, no LLM call follows, and rendercv is run neither in that
\* attempt nor after it (only earlier attempts may have run it).
C7_InvalidJsonEndsRequest ==
    \A i \in 1..Len(log) :
        Unparseable(log[i]) =>
            /\ i = Len(log)
            /\ pc = "done"
            /\ retval.kind = "tuple"
            /\ retval.second = 500
            /\ retval.first.json.error = InvalidJsonPrefix
                  \o JsonLoads(ExtractTailored(Strip(log[i].llm.content))).complaint
            /\ llm_calls = i
            /\ scaffold_calls = ScaffoldsBefore(i)
            /\ render_calls = RendersBefore(i)
            /\ temp_dirs = {}

\* a second tailoring attempt returned unparseable JSON after a first attempt
\* whose render failed
C7_Witness ==
    /\ pc = "done"
    /\ Len(log) = 2
    /\ log[1].step = "render"
    /\ Unparseable(log[2])
    /\ render_calls = 1
    /\ llm_calls = 2

\* the identifier split has run on the document
SplitDone == pc = "split" /\ split_result # NotRun

\* the header line of the document
Header == JobId(SplitLines(document))

\* C8 (as claimed): the split fails for every header line that contains no
\* " @ " separator.
C8_NoSeparatorFails ==
    (SplitDone /\ ~Contains(Header, Separator)) => split_result.kind = "ValueError"

\* text after the last (rightmost) occurrence of the separator
AfterLastSeparator(s) == SubSeq(s, RFind(s, Separator) + Len(Separator), Len(s))

\* start of the last separator a left-to-right scan finds when each separator
\* found is skipped whole; last when none is found from i on
RECURSIVE LastScanned(_, _, _)
LastScanned(s, i, last) ==
    IF i > Len(s) THEN last
    ELSE IF OccursAt(s, Separator, i) THEN LastScanned(s, i + Len(Separator), i)
    ELSE LastScanned(s, i + 1, last)

\* C9 (as claimed): for a header with one or more separators company_name is
\* exactly the text after the last occurrence of " @ ".
C9_CompanyIsTextAfterLastSeparator ==
    (SplitDone /\ Contains(Header, Separator)) =>
        /\ split_result.kind = "ok"
        /\ split_result.company_name = AfterLastSeparator(Header)

\* C9 (amended): for a header with one or more separators company_name is
\* the trimmed text after the last separator found scanning left to right
\* without overlap; when no two separators share a space (no " @ @ ") that
\* is the trimmed text after the last occurrence of " @ ".
C9_CompanyIsTrimmedLastPiece ==
    (SplitDone /\ Contains(Header, Separator)) =>
        /\ split_result.kind = "ok"
        /\ split_result.company_name =
              Strip(SubSeq(Header, LastScanned(Header, 1, 0) + Len(Separator), Len(Header)))
        /\ ~Contains(Header, <<" ", "@", " ", "@", " ">>) =>
              split_result.company_name = Strip(AfterLastSeparator(Header))

\* the header "@ @  @  a", with two separators and a blank after the last
\* one, was split
C9_Witness ==
    /\ SplitDone
    /\ split_result.kind = "ok"
    /\ Header = <<"@", " ", "@", " ", " ", "@", " ", " ", "a">>
    /\ split_result.company_name = <<"a">>

\* index of the first newline of s, 0 when it has none
FirstNewline(s) ==
    IF \E i \in 1..Len(s) : s[i] = "\n"
    THEN CHOOSE i \in 1..Len(s) : s[i] = "\n" /\ \A j \in 1..(i - 1) : s[j] # "\n"
    ELSE 0

\* the trimmed first line, without one leading '#', trimmed again
TitleAndCompany(s) ==
    LET n == FirstNewline(s)
        line == Strip(IF n = 0 THEN s ELSE SubSeq(s, 1, n - 1))
    IN  IF line # <<>> /\ line[1] = "#" THEN Strip(SubSeq(line, 2, Len(line))) ELSE line

\* everything after the first newline, trimmed
Body(s) ==
    LET n == FirstNewline(s)
    IN  IF n = 0 THEN <<>> ELSE Strip(SubSeq(s, n + 1, Len(s)))

\* C10: the split divides the document at its first newline only: job_id is
\* the trimmed first line with one leading '#' removed and trimmed again,
\* job_analysis is everything after the first newline, trimmed, or empty
\* when there is no second line; and a document whose first line has no
\* heading marker gives the same result when "# " is put in front of it.
C10_SplitAtFirstNewline ==
    SplitDone =>
        /\ split_result.kind = "ok" =>
              /\ split_result.job_id = TitleAndCompany(document)
              /\ split_result.job_analysis = Body(document)
        /\ ~StartsWith(document, HeadingMarker) =>
              SplitIdentifier(<<"#", " ">> \o document) = split_result

\* a document with a heading marker and two newlines was split
C10_Witness ==
    /\ SplitDone
    /\ split_result.kind = "ok"
    /\ document = <<"#", "@", "\n", "\n", "a">>
    /\ split_result.job_id = <<"@">>
    /\ split_result.job_analysis = <<"a">>

\* ------------------------------------------------------------------------
\* Properties of the extraction
\* ------------------------------------------------------------------------
\* an extraction was applied to the response
ExtractDone == extracted # NotRun

\* the response as the handler sees it, after response.message.content.strip()
LlmOutput == Strip(raw_output)

\* s is some payload between the opening marker and a closing fence
Wrapped(s, opening) ==
    /\ Len(s) >= Len(opening) + Len(Fence)
    /\ SubSeq(s, 1, Len(opening)) = opening
    /\ SubSeq(s, Len(s) - Len(Fence) + 1, Len(s)) = Fence

\* that payload
Interior(s, opening) == SubSeq(s, Len(opening) + 1, Len(s) - Len(Fence))

\* the fence marker the handler expects
ExpectedFence == IF endpoint = "analyze_job_posting" THEN HtmlFence ELSE JsonFence

\* the extraction ended with a payload
Extracted == ExtractDone /\ extracted.kind = "return"

\* the payload the extraction ended with
Payload ==
    IF endpoint = "get_resume_json" THEN extracted.value.text ELSE extracted.value

\* C11: fence round trip. For every payload P put between the opening marker
\* the handler expects and a closing fence, each of the three extractions
\* (resume extraction, job analysis, resume tailoring) ends with exactly P,
\* trimmed: the two markers are removed once, fences inside P stay.
C11_FenceRoundTrip ==
    ExtractDone /\ Wrapped(LlmOutput, ExpectedFence) =>
        /\ Extracted
        /\ Payload = Strip(Interior(LlmOutput, ExpectedFence))

\* resume tailoring recovered a payload that is a fence followed by one more
\* grave accent
C11_Witness ==
    /\ Extracted
    /\ endpoint = "tailor_resume"
    /\ raw_output = JsonFence \o Fence \o <<Backtick>> \o Fence
    /\ Payload = Fence \o <<Backtick>>

\* C12: whenever the response starts with the fence marker the handler
\* expects, the extracted payload holds no fence marker, text after the
\* closing fence included.
C12_NoFenceInResult ==
    Extracted /\ StartsWith(LlmOutput, ExpectedFence) => ~Contains(Payload, Fence)

\* the job-analysis response does not start with the HTML fence
LacksHtmlFence ==
    ExtractDone /\ endpoint = "analyze_job_posting" /\ ~StartsWith(LlmOutput, HtmlFence)

\* C13 as claimed: for every job-analysis response without the HTML fence,
\* an empty or whitespace-only one included, the extraction does not fail
\* and its payload is the trimmed response.
C13_FallbackNeverFails ==
    LacksHtmlFence => Extracted /\ Payload = Strip(raw_output)

\* C13 as amended: a job-analysis response without the HTML fence that is
\* not empty after trimming is never refused and never cut: the payload is
\* the trimmed response and one warning is given; a response that is empty
\* after trimming is refused with ValueError('LLM output is empty.').
C13_FallbackKeepsNonEmptyOutput ==
    LacksHtmlFence =>
        IF Strip(raw_output) = <<>>
        THEN /\ extracted = Raise("empty", Exception("ValueError", EmptyOutputMsg))
             /\ warned = <<>>
        ELSE /\ Extracted
             /\ Payload = Strip(raw_output)
             /\ warned = <<NoHtmlFenceMsg>>

\* a response in a bare fence, with white space around it, was kept whole
C13_Witness ==
    /\ LacksHtmlFence
    /\ raw_output = <<"\n">> \o Fence \o <<"x">> \o Fence
    /\ Payload = Fence \o <<"x">> \o Fence

\* ------------------------------------------------------------------------
\* Properties of the extraction inside the requests
\* ------------------------------------------------------------------------
\* llm.chat() answered r, a text that does not start with the JSON fence
Unfenced(r) == r.kind = "text" /\ ~StartsWith(Strip(r.content), JsonFence)

\* C14: in resume extraction and resume tailoring an LLM response that does
\* not start with the JSON fence always ends the attempt with a ValueError
\* raised before anything is parsed (the unexpected-format error, or the
\* error for an empty output): the unfenced text is never parsed, returned or
\* handed to the renderer.
C14_UnfencedJsonFails ==
    endpoint \in {"get_resume_json", "tailor_resume"} =>
        /\ \A i \in 1..Len(log) :
              Unfenced(log[i].llm) =>
                  /\ log[i].step \in {"fence", "empty"}
                  /\ log[i].exc.type = "ValueError"
        /\ job # None => ~Unfenced(job.llm)

\* the texts a handler holds of the response r: the stripped output and, in
\* tailoring, the json_string extracted from it
OutputTexts(r) ==
    IF r.kind # "text" THEN {}
    ELSE ({Strip(r.content)}
          \cup (IF endpoint = "tailor_resume"
                THEN {ExtractTailored(Strip(r.content))} ELSE {})) \ {<<>>}

\* the Response inside a returned tuple
RECURSIVE ResponseOf(_)
ResponseOf(value) == IF value.kind = "tuple" THEN ResponseOf(value.first) ELSE value

\* the strings of the error response the request returned
ErrorStrings ==
    IF retval.kind = "tuple"
    THEN {ResponseOf(retval).json[f] : f \in DOMAIN ResponseOf(retval).json}
    ELSE {}

\* the error response and the warnings of the request
Diagnostics == ErrorStrings \cup {warned[k] : k \in 1..Len(warned)}

\* C15: raw LLM output is opt-in. When private_data_logging is absent or
\* false, no error response and no warning of the request contains the text
\* of an LLM output of the request.
C15_RawOutputIsOptIn ==
    ~private_data_logging =>
        \A i \in 1..Len(log) : \A t \in OutputTexts(log[i].llm) :
            \A s \in Diagnostics : ~Contains(s, t)

\* ------------------------------------------------------------------------
\* Properties of the rendercv hand-off
\* ------------------------------------------------------------------------
\* the request is between two iterations, or has returned
OutsideWithBlock == pc \in {"jwt_required", "view", "loop", "done"}

\* C16: render cleanup. The temporary directory of a tailoring attempt is
\* gone as soon as the attempt has ended, however it ended (success, scaffold
\* failure, render failure, missing PDF, any other exception): at most one
\* directory of the request exists at any time, only that of the attempt in
\* progress, none between attempts or once the response is returned, and no
\* file is left below a directory that is gone.
C16_RenderCleanup ==
    /\ Cardinality(temp_dirs) <= 1
    /\ OutsideWithBlock => temp_dirs = {}
    /\ temp_dirs # {} => job # None /\ temp_dirs = {job.temp_dir}
    /\ \A path \in files : \A dir \in TempDirNames :
          Inside(path, dir) => dir \in temp_dirs

\* three attempts used a directory each: the scaffold failed, then the PDF
\* was missing, then the render succeeded; the response is returned and no
\* directory is left
C16_Witness ==
    /\ pc = "done"
    /\ Len(log) = 3
    /\ log[1].step = "scaffold"
    /\ log[2].step = "pdf"
    /\ log[3].step = "success"
    /\ scaffold_calls = 3
    /\ temp_dirs = {}

\* the k-th "rendercv render" exited with status zero and left no PDF
RenderIncomplete(k) == renders[k].returncode = 0 /\ ~renders[k].pdf_exists

\* the log entry of the iteration the k-th render belongs to
RenderEntry(k) == log[renders[k].attempt + 1]

\* C17: render completeness. An attempt whose render command exits with
\* status zero while the PDF is absent never produces the success response:
\* it raises the missing-PDF exception, which is recorded as the attempt's
\* error, and a request that ends with that attempt returns an error.
C17_IncompleteRenderIsFailure ==
    \A k \in 1..Len(renders) :
        RenderIncomplete(k) =>
            /\ RenderEntry(k).step = "pdf"
            /\ RenderEntry(k).exc = Exception("Exception", PdfMissingMsg)
            /\ RenderEntry(k).handled = "record"
            /\ (pc = "done" /\ Len(log) = renders[k].attempt + 1) =>
                  /\ retval.kind = "tuple"
                  /\ ResponseOf(retval).json = [error |-> PdfMissingMsg]

\* all three attempts rendered with status zero and no PDF
C17_Witness ==
    /\ pc = "done"
    /\ Len(renders) = 3
    /\ \A k \in 1..3 : RenderIncomplete(k)
    /\ retval.kind = "tuple"

\* C18 as claimed: a zero-exit render with an absent PDF ends the request at
\* the attempt where it occurs; neither the LLM nor the renderer is invoked
\* in a further attempt.
C18_RenderIncompleteIsFatal ==
    \A k \in 1..Len(renders) :
        RenderIncomplete(k) =>
            /\ pc = "done"
            /\ Len(log) = renders[k].attempt + 1
            /\ llm_calls = renders[k].attempt + 1
            /\ Len(renders) = k

\* C18 as amended: a zero-exit render with an absent PDF is recorded as the
\* attempt's error and the loop goes on: after a first or second attempt
\* that met it nothing is returned yet, and the next attempt calls the LLM
\* again before it reaches the renderer; the request ends on it only when it
\* is the third attempt.
C18_RenderIncompleteIsRetried ==
    \A k \in 1..Len(renders) :
        RenderIncomplete(k) =>
            LET i == renders[k].attempt + 1
            IN  /\ RenderEntry(k).handled = "record"
                /\ (i = Len(log) /\ i < 3) =>
                      /\ pc \in {"loop", "scaffold", "render"}
                      /\ retval = None
                      /\ last_error = Tuple(Jsonify([error |-> PdfMissingMsg]), 500)
                      /\ pc # "loop" => llm_calls = i + 1
                /\ i < Len(log) => log[i + 1].llm.kind # "None"
                /\ (i = Len(log) /\ pc = "done") => i = 3
                /\ llm_calls >= Len(log)

\* the PDF was missing after the first render; the second attempt called the
\* LLM and the renderer again and succeeded
C18_Witness ==
    /\ pc = "done"
    /\ Len(log) = 2
    /\ Len(renders) = 2
    /\ RenderIncomplete(1)
    /\ log[2].step = "success"
    /\ llm_calls = 2
    /\ render_calls = 2

\* the error the last finished attempt surfaced: recorded as last_error, or
\* returned at once
Surfaced == IF Last(log).handled = "record" THEN last_error ELSE retval

\* C19: when "rendercv new" or "rendercv render" exits with a non-zero
\* status, the error of that attempt carries what the tool wrote to its
\* captured output.
C19_CommandFailureCarriesDiagnostic ==
    (log # <<>> /\ Last(log).step \in {"scaffold", "render"}) =>
        Contains(ResponseOf(Surfaced).json.error, Last(log).exc.stderr)

\* C20: no file written for a request outlives it. Whatever filename the
\* caller sends, absolute paths and paths with parent-directory components
\* included, the PDF path handed to the renderer lies below the temporary
\* directory of the attempt, and once the response is returned no file the
\* request wrote exists.
C20_NoFileOutlivesRequest ==
    /\ pc = "render" => Inside(PathJoin(job.temp_dir, filename), job.temp_dir)
    /\ pc = "done" => files = {}

\* ------------------------------------------------------------------------
\* Properties of the failure classification
\* ------------------------------------------------------------------------
\* C21: no unclassified exception escapes a pipeline operation. Whatever is
\* raised during an attempt, an HTTPError that carries no response included,
\* is dealt with by the except clauses: no attempt ends with an exception
\* leaving the view, and the request ends with a value the view returned.
C21_NoExceptionEscapes ==
    /\ \A i \in 1..Len(log) : log[i].handled # "escape"
    /\ pc = "done" => retval.kind # "unhandled"


\* a failure that carries only a message: any exception other than HTTPError
FreeText(e) == e.kind = "Exception"

\* the message contains one of the four phrases, letter case ignored (a
\* phrase can only start at one of the listed characters)
MentionsRateLimit(msg) ==
    \E j \in 1..Len(msg) :
        /\ msg[j] \in {"r", "R", "q", "Q", "t", "T", "4"}
        /\ \E phrase \in { <<"r","a","t","e"," ","l","i","m","i","t">>, <<"q","u","o","t","a">>, <<"t","o","o"," ","m","a","n","y"," ","r","e","q","u","e","s","t","s">>,
                            <<"4","2","9">> } :
              /\ j + Len(phrase) - 1 <= Len(msg)
              /\ \A k \in 1..Len(phrase) : LowerChar(msg[j + k - 1]) = phrase[k]

\* the i-th attempt's failure was recorded as the given error and the loop
\* went on: to attempt i + 1, or behind the loop after the third attempt
Retried(i, error) ==
    /\ log[i].handled = "record"
    /\ i = Len(log) =>
          /\ last_error = Tuple(Jsonify([error |-> error]), 500)
          /\ IF i < 3
             THEN pc \in {"loop", "scaffold", "render"} /\ attempt = i
             ELSE pc = "done" /\ retval # Tuple(Jsonify([error |-> RateLimitMsg]), 429)

\* the i-th attempt's failure ended the request with the given response
ReturnedAtOnce(i, response) ==
    /\ log[i].handled = "return"
    /\ i = Len(log)
    /\ pc = "done"
    /\ retval = response

\* C22: a failure that carries only a message ends the request at once with
\* status 429 and the rate-limit text exactly when its message contains,
\* letter case ignored, "rate limit", "quota", "too many requests" or "429";
\* with any other message it is recorded with status 500 and the loop goes on.
C22_FreeTextClassification ==
    \A i \in 1..Len(log) :
        FreeText(log[i].exc) =>
            IF MentionsRateLimit(log[i].exc.msg)
            THEN ReturnedAtOnce(i, Tuple(Jsonify([error |-> RateLimitMsg]), 429))
            ELSE Retried(i, log[i].exc.msg)

\* a first attempt failed with a message naming none of the phrases and was
\* retried; the second failed with "Quota ..." and ended the request with 429
C22_Witness ==
    /\ pc = "done"
    /\ Len(log) = 2
    /\ FreeText(log[1].exc) /\ ~MentionsRateLimit(log[1].exc.msg)
    /\ FreeText(log[2].exc) /\ Contains(log[2].exc.msg, <<"Q","u","o","t","a">>)
    /\ retval.second = 429

\* C23: a failure that carries an HTTP status code is classified by the code
\* alone: 429 ends the request with status 429, 503 with status 503, and any
\* other code is recorded as "HTTP error: ..." with status 500 and retried,
\* also when its message contains a rate-limit phrase.
C23_StatusCodeFirst ==
    \A i \in 1..Len(log) :
        (log[i].exc.kind = "HTTPError" /\ log[i].exc.has_response) =>
            IF log[i].exc.status_code = 429
            THEN ReturnedAtOnce(i, Tuple(Jsonify([error |-> RateLimitMsg]), 429))
            ELSE IF log[i].exc.status_code = 503
            THEN ReturnedAtOnce(i, Tuple(Jsonify([error |-> UnavailableMsg]), 503))
            ELSE Retried(i, <<"H","T","T","P"," ","e","r","r","o","r",":"," ">> \o log[i].exc.msg)

\* an HTTP failure with status 400 whose message names a quota was retried
C23_Witness ==
    /\ Len(log) >= 2
    /\ log[1].exc.kind = "HTTPError"
    /\ log[1].exc.status_code = 400
    /\ MentionsRateLimit(log[1].exc.msg)
    /\ log[1].handled = "record"
    /\ llm_calls >= 2


\* ------------------------------------------------------------------------
\* The splice of lines 487-504 as a function of the scaffold file
\* ------------------------------------------------------------------------
\* lines a scaffold file is built from: a field of the content section, a
\* field whose key ends in "design", the design key, a design field and a
\* further top-level key
ScaffoldLines ==
    { <<" "," ","n","a","m","e",":"," ","x","\n">>, <<" "," ","r","e","d","e","s","i","g","n",":"," ","y","\n">>, <<"d","e","s","i","g","n",":","\n">>, <<" "," ","t","h","e","m","e",":"," ","t","\n">>,
      <<"l","o","c","a","l","e",":","\n">> }

\* the top-level keys of the enumerated lines
TopLevelLines == { <<"d","e","s","i","g","n",":","\n">>, <<"l","o","c","a","l","e",":","\n">> }

\* the files "rendercv new" may leave: the cv key, then the lines in any
\* order, no top-level key twice
ScaffoldFiles ==
    { <<"c","v",":","\n">> \o Concat(ls) :
        ls \in { ls \in UNION {[1..k -> ScaffoldLines] : k \in 0..MaxScaffoldLines} :
                   \A i, j \in 1..Len(ls) :
                       (i # j /\ ls[i] \in TopLevelLines) => ls[i] # ls[j] } }

\* parsed resumes the splice is applied to
SpliceResumes ==
    { JsonLoads(<<"{","\"","c","v","\"",":","{","\"","n","a","m","e","\"",":","\"","A",
      " ","B","\"","}","}">>).val,
      JsonLoads(<<"{","\"","c","v","\"",":","{","\"","n","a","m","e","\"",":","\"","A",
      "\"","}",",","\"","d","e","s","i","g","n","\"",":","{","\"","t",
      "h","e","m","e","\"",":","\"","u","\"","}","}">>).val }

InitSplice ==
    /\ pc = "splice"
    /\ endpoint = "tailor_resume"
    /\ auth_header = "bearer_valid"
    /\ fields = RequiredFields("tailor_resume")
    /\ private_data_logging = FALSE
    /\ api_key = TRUE
    /\ format_file = TRUE
    /\ filename = <<"c","v",".","p","d","f">>
    /\ attempt = 0
    /\ last_error = None
    /\ retval = None
    /\ llm_calls = 0
    /\ scaffold_calls = 0
    /\ render_calls = 0
    /\ log = <<>>
    /\ warned = <<>>
    /\ temp_dirs = {}
    /\ job \in {[tailored_resume_json |-> resume] : resume \in SpliceResumes}
    /\ yaml_file \in {File(content) : content \in ScaffoldFiles}
    /\ render_input = None
    /\ files = {}
    /\ renders = <<>>
    /\ document = <<>>
    /\ split_result = NotRun
    /\ raw_output = <<>>
    /\ extracted = NotRun

\* lines 487-504 applied to one scaffold file and one resume
ApplySplice ==
    /\ pc = "splice"
    /\ pc' = "spliced"
    /\ render_input' = File(CombinedYaml(YamlString(job.tailored_resume_json),
                                         yaml_file.content))
    /\ UNCHANGED <<request_vars, attempt, last_error, retval, counters, log, warned,
                   temp_dirs, job, yaml_file, split_vars, extract_vars, renderer_vars>>

NextSplice == ApplySplice

SpecSplice == InitSplice /\ [][NextSplice]_vars

\* the design section of a scaffold file: from the line that is the key
\* "design:" to the end of the file, empty when there is no such line
DesignSection(scaffold) ==
    LET starts == {i \in 1..Len(scaffold) :
                      /\ OccursAt(scaffold, <<"d","e","s","i","g","n",":">>, i)
                      /\ (i = 1 \/ scaffold[i - 1] = "\n")}
    IN  IF starts = {} THEN <<>>
        ELSE SubSeq(scaffold, CHOOSE i \in starts : \A j \in starts : i <= j,
                    Len(scaffold))

\* C24: the written document is the serialized resume followed by the
\* scaffold file from its design section to the end (surrounding white space
\* aside), and nothing of the scaffold's content section, for every scaffold
\* file: also one whose content section holds the text "design:", and one
\* without a design section, where nothing follows the resume.
C24_DesignSectionCarriedOver ==
    pc = "spliced" =>
        render_input.content =
            Strip(Strip(YamlString(job.tailored_resume_json)) \o <<"\n">>
                  \o Strip(DesignSection(yaml_file.content)))


\* C25: an attempt in which the LLM call returned a response is never answered
\* with "Rate limit exceeded" and status 429, whatever the response text, the
\* filename and theme of the request and the private_data_logging flag are.
C25_AnsweredCallNeverRateLimited ==
    \A i \in 1..Len(log) :
        (log[i].llm.kind = "text" /\ i = Len(log) /\ pc = "done") =>
            retval # Tuple(Jsonify([error |-> RateLimitMsg]), 429)


\* the place of a step in the try body of tailor_resume_endpoint
StepRank(step) ==
    CASE step = "get_llm" -> 0
      [] step = "llm" -> 1
      [] step \in {"empty", "fence"} -> 2
      [] step = "parse" -> 3
      [] step = "name" -> 4
      [] step = "scaffold" -> 5
      [] step = "render" -> 6
      [] step = "pdf" -> 7
      [] step = "success" -> 8

\* iterations so far that came at least as far as the given step
CameTo(step) ==
    Cardinality({i \in 1..Len(log) : StepRank(log[i].step) >= StepRank(step)})

\* the renders recorded for the i-th iteration
RendersOf(i) == {k \in 1..Len(renders) : renders[k].attempt = i - 1}

\* C26: in each tailoring attempt the steps run in the order LLM call, fence
\* extraction, JSON parse, working directory, scaffold, render, PDF check,
\* each only after every earlier one succeeded: rendercv is run only for an
\* output that parsed, in a directory that exists, the render only after a
\* scaffold that left its file, at most once per attempt, and the PDF is
\* looked for only after a render that exited with zero.
C26_StepsInOrder ==
    endpoint = "tailor_resume" =>
        /\ \A i \in 1..Len(log) :
              /\ StepRank(log[i].step) >= 1 <=> log[i].llm # None
              /\ StepRank(log[i].step) >= 2 => log[i].llm.kind = "text"
              /\ StepRank(log[i].step) >= 4 =>
                    JsonLoads(ExtractTailored(Strip(log[i].llm.content))).ok
              /\ Cardinality(RendersOf(i)) = IF StepRank(log[i].step) >= 6 THEN 1 ELSE 0
              /\ \A k \in RendersOf(i) :
                    /\ log[i].step = "render" <=> renders[k].returncode # 0
                    /\ log[i].step = "success" =>  renders[k].pdf_exists
                    /\ log[i].step = "pdf" => ~renders[k].pdf_exists
        /\ llm_calls = CameTo("llm") + IF pc \in {"scaffold", "render"} THEN 1 ELSE 0
        /\ scaffold_calls = CameTo("scaffold") + IF pc = "render" THEN 1 ELSE 0
        /\ render_calls = CameTo("render")
        /\ render_calls = Len(renders)
        /\ pc \in {"scaffold", "render"} =>
              /\ job.llm.kind = "text"
              /\ JsonLoads(ExtractTailored(Strip(job.llm.content))).ok
              /\ job.temp_dir \in temp_dirs
              /\ RendersOf(Len(log) + 1) = {}
        /\ pc = "scaffold" => yaml_file = None
        /\ pc = "render" =>
              /\ yaml_file # None
              /\ PathJoin(job.temp_dir, YamlPathBase(job.full_name)) \in files

\* a first attempt ended in a failed scaffold and was not rendered, a second
\* was rendered without a PDF, and the third has its scaffold and awaits the
\* render
C26_Witness ==
    /\ endpoint = "tailor_resume"
    /\ Len(log) = 2
    /\ log[1].step = "scaffold"
    /\ log[2].step = "pdf"
    /\ pc = "render"
    /\ llm_calls = 3
    /\ scaffold_calls = 3
    /\ render_calls = 1


\* C27: every successful job-analysis result has a job_id that contains "@"
\* and a company_name that is not empty and is a suffix of job_id, whatever
\* the LLM output was.
C27_IdentifierShape ==
    (SplitDone /\ split_result.kind = "ok") =>
        /\ \E i \in 1..Len(split_result.job_id) : split_result.job_id[i] = "@"
        /\ split_result.company_name # <<>>
        /\ \E n \in 1..Len(split_result.job_id) :
              split_result.company_name =
                  SubSeq(split_result.job_id, Len(split_result.job_id) - n + 1,
                         Len(split_result.job_id))

\* a heading whose company is a lone "@" was split into the identifier and
\* its last piece
C27_Witness ==
    /\ SplitDone
    /\ split_result.kind = "ok"
    /\ document = <<"#","a"," ","@"," ","@">>
    /\ split_result.job_id = <<"a"," ","@"," ","@">>
    /\ split_result.company_name = <<"@">>


\* ------------------------------------------------------------------------
\* Properties of a whole request
\* ------------------------------------------------------------------------
\* the input fields each operation cannot do without
ClaimedFields ==
    CASE endpoint = "get_resume_json" -> {"resume_content"}
      [] endpoint = "generate_search_query" -> {"resume_json_data"}
      [] endpoint \in {"analyze_job_posting", "generate_cover_letter"} ->
             {"job_posting_text", "resume_json_data"}
      [] endpoint = "tailor_resume" ->
             {"job_posting_text", "resume_json_data", "filename"}

\* the request carries a token that jwt_required accepts
Authenticated == GetJwtUserId(auth_header).kind = "sub"

\* C28: a request that lacks a required input field never enters the retry
\* loop: no LLM call and no rendercv run is made for it, and once it has
\* passed the token check the view answers it with status 400 and the
\* message that names the fields.
C28_MissingFieldRejected ==
    ClaimedFields \ fields # {} =>
        /\ pc \in {"jwt_required", "view", "done"}
        /\ attempt = 0
        /\ log = <<>>
        /\ llm_calls = 0
        /\ scaffold_calls = 0
        /\ render_calls = 0
        /\ renders = <<>>
        /\ temp_dirs = {}
        /\ (pc = "done" /\ Authenticated) =>
              /\ retval.kind = "tuple"
              /\ retval.second = 400
              /\ retval.first = Jsonify([error |-> MissingFieldsMsg(endpoint)])

\* a tailoring request with a valid token and every field but the filename
\* was answered with status 400
C28_Witness ==
    /\ endpoint = "tailor_resume"
    /\ Authenticated
    /\ fields = {"job_posting_text", "resume_json_data"}
    /\ pc = "done"
    /\ retval.second = 400
    /\ llm_calls = 0


\* where a request is: the step of its handler and the iteration of the loop;
\* every step changes it
position == <<pc, attempt>>

\* the next step of a handler that has not answered yet: it moves on in the
\* view or in the loop
Progress ==
    /\ pc # "done"
    /\ pc' \in {"view", "loop", "scaffold", "render", "done"}
    /\ attempt' \in {attempt, attempt + 1}

\* a request whose handler keeps running: every call it makes (llm.chat,
\* rendercv) returns or fails, so a handler that has not answered takes its
\* next step
FairSpec == Spec /\ WF_position(Progress)

\* C29: every request ends with exactly one response after at most three
\* attempts: never more than three LLM calls, three scaffold runs and three
\* render runs, the response once given is not replaced and nothing runs
\* after it, and the response is eventually given.
C29_Terminates ==
    /\ [](/\ attempt \in 0..2
          /\ Len(log) <= 3
          /\ llm_calls <= 3
          /\ scaffold_calls <= 3
          /\ render_calls <= 3
          /\ Len(renders) <= 3
          /\ retval # None <=> pc = "done")
    /\ [][pc # "done" /\ retval = None]_position
    /\ <>(pc = "done" /\ retval # None)

\* a tailoring request ended after three attempts that each called the LLM,
\* the scaffold and the render
C29_Witness ==
    /\ pc = "done"
    /\ retval # None
    /\ attempt = 2
    /\ llm_calls = 3
    /\ scaffold_calls = 3
    /\ render_calls = 3

====
